---- MODULE Spec2Model ----
(***************************************************************************)
(* A model of the TikTok info bot: the per-user rate limiter of bot.py,    *)
(* the handlers that call it, and the video resolver of scraper.py.        *)
(*                                                                         *)
(* Time is the wall clock of datetime.now(timezone.utc), in whole seconds. *)
(***************************************************************************)
EXTENDS Integers, Sequences, FiniteSets, TLC

(* ------------------------------------------------------------------ *)
(* Program constants (bot.py:45-47)                                    *)
(* ------------------------------------------------------------------ *)
RATE_LIMIT_COUNT == 20
RATE_LIMIT_WINDOW == 300
RATE_LIMIT_COOLDOWN == 600

(* ------------------------------------------------------------------ *)
(* Bounds of the model                                                 *)
(* ------------------------------------------------------------------ *)
\* The clock stops advancing past MaxTime.
MaxTime == 604

\* Telegram user ids.
Users == {1, 2}

\* The amounts by which the clock advances between two updates.
TickSteps == {149, 150, 151}

VARIABLES
    now,          \* the wall clock, in seconds
    rate_limit,   \* bot.py:44, the dict user_id -> {"count", "start_time"}
    call,         \* the most recent check_rate_limit call: its arguments, the
                  \* state it found and the tuple it returned; NoCall after a tick
    track,        \* per user: the calls made less than RATE_LIMIT_WINDOW seconds
                  \* after the user's first call (observer)
    watch,        \* one observed interval of RATE_LIMIT_WINDOW seconds and the
                  \* checks allowed to its user inside it (observer)
    HAS_YTDLP,    \* scraper.py:7-11, whether yt_dlp could be imported
    vpc,          \* get_video_no_watermark: where the call stands
    vurl,         \* get_video_no_watermark: the local variable url
    vcalls,       \* the strategies invoked by the call so far, in order, each
                  \* with the url it was given and the media URL it came back
                  \* with (observer)
    vresult,      \* get_video_no_watermark: the dict returned
    search_history,  \* bot.py:108, the dict user_id -> list of entries
    favorites,       \* bot.py:111, the dict user_id -> list of usernames
    pending_action,  \* context.user_data["pending_action"] of each user
    conv,            \* the state of each user in the four ConversationHandlers
    displayed,       \* per user: the usernames whose profile was sent with its
                     \* refresh, raw and add-favorite buttons
    task,            \* the update being handled: its handler, where the handler
                     \* stands, and what it has done so far (observer fields)
    ppc,          \* get_user_by_username / get_user_by_id: where the call stands
    pfn,          \* which of the two functions was called
    parg,         \* its argument, a string as a sequence of characters
    pcalls,       \* the strategies invoked by the call so far, in order, each
                  \* with what upstream answered (observer)
    presult,      \* the dict returned, or Raised when an exception left the call
    fuser,        \* _format_user: the argument user
    fstats,       \* _format_user: the argument stats
    frecord,      \* _format_user: the dict returned; NotFormatted before the call
    saved,        \* per user: every entry save_to_history was given, the most
                  \* recent first (observer)
    upstream,     \* what the profile page of the platform answers at present
    shown_record, \* the profile record the user was last shown (observer)
    raw_export,   \* what the raw-data button last came back with (observer)
    region_arg,   \* _resolve_region: the argument region
    language_arg, \* _resolve_region: the argument language
    region_label, \* _resolve_region: the string it returned
    fagain,  \* _format_user: the dict a second call on the same arguments returned
    fothers, \* the calls of _format_user made on other arguments (observer)
    fine_now,  \* the wall clock read to a fraction of a second, in ticks
    fine_limit,  \* rate_limit with the start times in ticks
    fine_call,  \* the most recent check_rate_limit call on that clock (observer)
    fine_last, \* the call before it of the same user, when it was denied (observer)
    tasks,  \* the handler tasks of the event loop, each at an await or not started
    allowed_since  \* per user, the checks allowed since the start of the window (observer)

rlVars == <<now, rate_limit, call, track, watch>>
vidVars == <<HAS_YTDLP, vpc, vurl, vcalls, vresult>>
botVars == <<search_history, favorites, pending_action, conv, displayed, task>>
profVars == <<ppc, pfn, parg, pcalls, presult>>
fmtVars == <<fuser, fstats, frecord>>
obsVars == <<saved, upstream, shown_record, raw_export>>
regVars == <<region_arg, language_arg, region_label>>
pureVars == <<fagain, fothers>>
fineVars == <<fine_now, fine_limit, fine_call, fine_last>>
taskVars == <<tasks, allowed_since>>
vars == <<now, rate_limit, call, track, watch, HAS_YTDLP, vpc, vurl, vcalls, vresult,
          search_history, favorites, pending_action, conv, displayed, task,
          ppc, pfn, parg, pcalls, presult, fuser, fstats, frecord,
          saved, upstream, shown_record, raw_export,
          region_arg, language_arg, region_label,
          fagain, fothers,
          fine_now, fine_limit, fine_call, fine_last,
          tasks, allowed_since>>

NoCall == [user |-> 0]
NoWatch == [user |-> 0]
NoTrack == [n |-> 0, t0 |-> 0]
ClosedTrack == [n |-> -1, t0 |-> 0]

(* ------------------------------------------------------------------ *)
(* check_rate_limit (bot.py:78-104)                                    *)
(* ------------------------------------------------------------------ *)

\* bot.py:82-83, mutated: the fresh entry already counts one request.
WithEntryCounted(rl, user_id, current_time) ==
    IF user_id \in DOMAIN rl
    THEN rl
    ELSE rl @@ (user_id :> [count |-> 1, start_time |-> current_time])

\* bot.py:82-83: a user not in the dict gets a fresh entry with count 0.
WithEntry(rl, user_id, current_time) ==
    IF user_id \in DOMAIN rl
    THEN rl
    ELSE rl @@ (user_id :> [count |-> 0, start_time |-> current_time])

\* bot.py:86
Elapsed(user_data, current_time) == current_time - user_data.start_time

\* bot.py:88, mutated: the window is over as soon as its length has elapsed.
WindowExpiredAtEnd(elapsed) == elapsed >= RATE_LIMIT_WINDOW

\* bot.py:88, mutated: the window is compared with the cooldown length.
WindowExpiredSlow(elapsed) == elapsed > RATE_LIMIT_COOLDOWN

\* bot.py:88
WindowExpired(elapsed) == elapsed > RATE_LIMIT_WINDOW

\* bot.py:93, mutated: off by one, the limit is reached one request late.
LimitReachedLate(count) == count > RATE_LIMIT_COUNT

\* bot.py:93
LimitReached(count) == count >= RATE_LIMIT_COUNT

\* bot.py:89-90 and 96-97
ResetData(current_time) == [count |-> 1, start_time |-> current_time]

\* The tuple (is_limited, minutes, seconds) of bot.py:91, 98, 101, 104.
Returned(is_limited, minutes, seconds) ==
    [is_limited |-> is_limited, minutes |-> minutes, seconds |-> seconds]

\* bot.py:80-104 on the dict entry `key`: the new dict and the returned tuple.
CheckEntry(rl, key, current_time) ==
    LET rl1 == WithEntry(rl, key, current_time)
        user_data == rl1[key]
        elapsed == Elapsed(user_data, current_time)
        remaining == RATE_LIMIT_COOLDOWN - elapsed
    IN  IF WindowExpired(elapsed)
        THEN [rl |-> [rl1 EXCEPT ![key] = ResetData(current_time)],
              out |-> Returned(FALSE, 0, 0)]
        ELSE IF LimitReached(user_data.count)
        THEN IF remaining <= 0
             THEN [rl |-> [rl1 EXCEPT ![key] = ResetData(current_time)],
                   out |-> Returned(FALSE, 0, 0)]
             ELSE [rl |-> rl1,
                   out |-> Returned(TRUE, remaining \div 60, remaining % 60)]
        ELSE [rl |-> [rl1 EXCEPT ![key].count = user_data.count + 1],
              out |-> Returned(FALSE, 0, 0)]

\* Mutated: one counter shared by all users instead of one per user id.
check_rate_limit_shared(rl, user_id, current_time) ==
    CheckEntry(rl, 1, current_time)

\* Mutated: a denied call restarts the user's window at the current time.
check_rate_limit_extending(rl, user_id, current_time) ==
    LET r == CheckEntry(rl, user_id, current_time)
    IN  IF r.out.is_limited
        THEN [r EXCEPT !.rl[user_id].start_time = current_time]
        ELSE r

\* bot.py:78-104
check_rate_limit(rl, user_id, current_time) ==
    CheckEntry(rl, user_id, current_time)

(* ------------------------------------------------------------------ *)
(* The rate limiter alone: users call check_rate_limit, time passes.   *)
(* ------------------------------------------------------------------ *)

InitRL ==
    /\ now = 0
    /\ rate_limit = <<>>
    /\ call = NoCall
    /\ track = [u \in Users |-> NoTrack]
    /\ watch = NoWatch

\* No call of get_video_no_watermark is under way.
InitVideo ==
    /\ vpc = "idle"
    /\ vurl = ""
    /\ vcalls = <<>>
    /\ vresult = [error |-> TRUE]   \* no dict yet

\* The conversations, in the order their handlers are registered
\* (bot.py:961-964).
Conversations == <<"search", "id", "video", "compare">>

\* No update is being handled.
NoTask == [pc |-> "none"]

\* Python's None.
None == "<None>"

\* bot.py:108, 111 and 931-953: empty dicts, no user_data, every conversation
\* at its end state.
InitBot ==
    /\ search_history = <<>>
    /\ favorites = <<>>
    /\ pending_action = [u \in Users |-> None]
    /\ conv = [u \in Users |-> [c \in {"search", "id", "video", "compare"} |->
                                  [waiting |-> FALSE, checked |-> "no"]]]
    /\ displayed = [u \in Users |-> {}]
    /\ task = NoTask

\* No call of a profile resolver is under way.
InitProfile ==
    /\ ppc = "idle"
    /\ pfn = "none"
    /\ parg = <<>>
    /\ pcalls = <<>>
    /\ presult = [error |-> TRUE]

\* _format_user has not been called.
NotFormatted == [formatted |-> FALSE]

\* _resolve_region has not been called.
InitRegion ==
    /\ region_arg = [none |-> TRUE]
    /\ language_arg = [none |-> TRUE]
    /\ region_label = NotFormatted

\* _format_user has been called at most once.
InitPure ==
    /\ fagain = NotFormatted
    /\ fothers = 0

\* The clock read to a fraction of a second starts at 0 with an empty dict.
InitFine ==
    /\ fine_now = 0
    /\ fine_limit = <<>>
    /\ fine_call = [user |-> 0]
    /\ fine_last = [denied |-> FALSE]

\* The handler tasks the event loop may run side by side.
MaxTasks == 2
TaskIds == 1..MaxTasks

\* No handler task is running.
InitTasks ==
    /\ tasks = [i \in TaskIds |-> "none"]
    /\ allowed_since = [u \in Users |-> 0]

\* No payload is at hand.
InitFormat ==
    /\ fuser = [none |-> TRUE]
    /\ fstats = [none |-> TRUE]
    /\ frecord = NotFormatted

\* Nothing was saved, shown or exported; the profile page is not found.
InitObserved ==
    /\ saved = [u \in Users |-> <<>>]
    /\ upstream = [kind |-> "status", userInfo |-> [absent |-> TRUE],
                   statusCode |-> [absent |-> TRUE]]
    /\ shown_record = NotFormatted
    /\ raw_export = NotFormatted

Init ==
    /\ InitRL
    /\ InitObserved
    /\ InitTasks
    /\ InitFine
    /\ InitPure
    /\ InitRegion
    /\ InitFormat
    /\ InitVideo
    /\ InitBot
    /\ InitProfile
    /\ HAS_YTDLP = TRUE

\* What a call found and returned.
CallRecord(rl, user_id, r) ==
    [user |-> user_id,
     known |-> user_id \in DOMAIN rl,
     before |-> IF user_id \in DOMAIN rl THEN rl[user_id].count ELSE 0,
     elapsed |-> IF user_id \in DOMAIN rl THEN now - rl[user_id].start_time ELSE 0,
     is_limited |-> r.out.is_limited,
     minutes |-> r.out.minutes,
     seconds |-> r.out.seconds]

\* Observer: the ordinal of this call among the user's calls, while the call is
\* made less than RATE_LIMIT_WINDOW seconds after the user's first one.
Tracked(tr, t) ==
    IF tr = NoTrack THEN [n |-> 1, t0 |-> t]
    ELSE IF tr = ClosedTrack THEN tr
    ELSE [tr EXCEPT !.n = IF tr.n > RATE_LIMIT_COUNT + 1 THEN tr.n ELSE tr.n + 1]

\* Observer: the first window of a user is over at time t.
Aged(tr, t) ==
    IF tr.n > 0 /\ t - tr.t0 >= RATE_LIMIT_WINDOW THEN ClosedTrack ELSE tr

\* Observer: an allowed check of the watched user inside the watched interval
\* [lo, lo + RATE_LIMIT_WINDOW] is counted.
Watched(w, user_id, is_limited, t) ==
    IF /\ w # NoWatch
       /\ w.user = user_id
       /\ ~is_limited
       /\ t <= w.lo + RATE_LIMIT_WINDOW
       /\ w.cnt <= 2 * RATE_LIMIT_COUNT
    THEN [w EXCEPT !.cnt = w.cnt + 1]
    ELSE w

\* A handler calls check_rate_limit(user_id).
Check(user_id) ==
    LET r == check_rate_limit(rate_limit, user_id, now)
    IN  /\ rate_limit' = r.rl
        /\ call' = CallRecord(rate_limit, user_id, r)
        /\ track' = [track EXCEPT ![user_id] = Tracked(track[user_id], now)]
        /\ watch' = Watched(watch, user_id, r.out.is_limited, now)
        /\ UNCHANGED now
        /\ UNCHANGED <<vidVars, botVars, profVars, fmtVars, obsVars, regVars, pureVars, fineVars, taskVars>>

\* Time passes between two updates.
Tick ==
    \E d \in TickSteps :
        /\ now + d <= MaxTime
        /\ now' = now + d
        /\ call' = NoCall
        /\ track' = [u \in Users |-> Aged(track[u], now + d)]
        /\ UNCHANGED <<rate_limit, watch>>
        /\ UNCHANGED <<vidVars, botVars, profVars, fmtVars, obsVars, regVars, pureVars, fineVars, taskVars>>

\* Observer: from now on the checks allowed to user_id in the next
\* RATE_LIMIT_WINDOW seconds are counted.
StartWatch(user_id) ==
    /\ watch = NoWatch
    /\ watch' = [user |-> user_id, lo |-> now, cnt |-> 0]
    /\ call' = NoCall
    /\ UNCHANGED <<now, rate_limit, track>>
    /\ UNCHANGED <<vidVars, botVars, profVars, fmtVars, obsVars, regVars, pureVars, fineVars, taskVars>>

NextRL ==
    \/ \E u \in Users : Check(u)
    \/ Tick

\* Many users, no observed interval.
SpecRL == Init /\ [][NextRL]_vars

NextWin ==
    \/ Check(1)
    \/ Tick
    \/ StartWatch(1)

\* One user and one observed interval of RATE_LIMIT_WINDOW seconds.
SpecWin == Init /\ [][NextWin]_vars

(* ------------------------------------------------------------------ *)
(* Claims about the rate limiter                                       *)
(* ------------------------------------------------------------------ *)

\* C1: for every user, the first N (20) calls of check_rate_limit made less
\* than W (300) seconds after the user's first call are all allowed, and the
\* (N+1)th call made within that same window is denied.
C1_FirstWindowLimit ==
    call # NoCall =>
        LET tr == track[call.user]
        IN  /\ (tr.n >= 1 /\ tr.n <= RATE_LIMIT_COUNT) => ~call.is_limited
            /\ tr.n = RATE_LIMIT_COUNT + 1 => call.is_limited

\* C1 witness: the 21st call of a user, made 299 seconds after the first one,
\* has just been denied.
C1_Witness ==
    /\ call # NoCall
    /\ track[call.user].n = RATE_LIMIT_COUNT + 1
    /\ now - track[call.user].t0 = RATE_LIMIT_WINDOW - 1
    /\ call.is_limited

\* C2: once a user's count has reached N within the current window, every
\* check made before C (600) seconds have elapsed since the original window
\* start is denied, and a check made once C has elapsed from the original
\* window start is allowed with count reset to 1 and window start set to now.
C2_CooldownFromWindowStart ==
    (call # NoCall /\ call.known /\ call.before >= RATE_LIMIT_COUNT) =>
        IF call.elapsed < RATE_LIMIT_COOLDOWN
        THEN call.is_limited
        ELSE /\ ~call.is_limited
             /\ rate_limit[call.user] = [count |-> 1, start_time |-> now]

\* C3 (as claimed): for every user and every time interval of length W, at
\* most N checks by that user falling inside the interval are allowed.
C3_SlidingWindow ==
    watch # NoWatch => watch.cnt <= RATE_LIMIT_COUNT

\* C3 (amended): the window is fixed, restarted by the first check made more
\* than W seconds after its start; for every user and every time interval of
\* length W, at most 2N - 1 checks by that user falling inside the interval
\* are allowed.
C3_FixedWindow ==
    watch # NoWatch => watch.cnt <= 2 * RATE_LIMIT_COUNT - 1

\* C3 witness: 2N - 1 checks of one user were allowed inside one interval of
\* length W.
C3_Witness ==
    /\ watch # NoWatch
    /\ watch.cnt = 2 * RATE_LIMIT_COUNT - 1
    /\ now <= watch.lo + RATE_LIMIT_WINDOW

\* C4: whenever a check is made more than W seconds after the user's window
\* start, the call is allowed, count becomes exactly 1 (whatever its previous
\* value) and the window start becomes the current time.
C4_ResetAfterWindow ==
    (call # NoCall /\ call.known /\ call.elapsed > RATE_LIMIT_WINDOW) =>
        /\ ~call.is_limited
        /\ rate_limit[call.user] = [count |-> 1, start_time |-> now]

\* C4 witness: a user whose count stood at N checks 301 seconds after the
\* window start.
C4_Witness ==
    /\ call # NoCall
    /\ call.known
    /\ call.elapsed = RATE_LIMIT_WINDOW + 1
    /\ call.before = RATE_LIMIT_COUNT
    /\ rate_limit[call.user].count = 1

\* The dict entry of a user, or a marker when the user has none.
Entry(rl, v) ==
    IF v \in DOMAIN rl THEN rl[v] ELSE [count |-> -1, start_time |-> -1]

\* What check_rate_limit(u) would return now, and the entry it would leave.
Outcome(u) ==
    LET r == check_rate_limit(rate_limit, u, now)
    IN  <<r.out, Entry(r.rl, u)>>

\* C7: a check_rate_limit call for user u leaves the rate-limit state of every
\* other user v unchanged, and its outcome depends only on u's own state and
\* the current time: two users in the same state get the same outcome.
C7_NoCrossUserInterference ==
    /\ [][\A v \in Users :
            (call' # NoCall /\ call'.user # v) =>
                Entry(rate_limit', v) = Entry(rate_limit, v)]_vars
    /\ [](\A u, v \in Users :
            Entry(rate_limit, u) = Entry(rate_limit, v) => Outcome(u) = Outcome(v))

\* C7 witness: user 1 has just been denied while user 2, who started a window
\* of its own later, has a different count.
C7_Witness ==
    /\ call # NoCall
    /\ call.user = 1
    /\ call.is_limited
    /\ 2 \in DOMAIN rate_limit
    /\ rate_limit[2].count \in 2..(RATE_LIMIT_COUNT - 1)
    /\ rate_limit[2].start_time > rate_limit[1].start_time

\* C22: the first check ever made for a user creates that user's state and is
\* allowed, leaving count equal to 1 and window start equal to the time of
\* that call.
C22_FirstCheckCreates ==
    (call # NoCall /\ ~call.known) =>
        /\ ~call.is_limited
        /\ call.user \in DOMAIN rate_limit
        /\ rate_limit[call.user] = [count |-> 1, start_time |-> now]

\* C22 witness: user 2 has just made its first check, 150 seconds or more after
\* user 1 made several.
C22_Witness ==
    /\ call # NoCall
    /\ call.user = 2
    /\ ~call.known
    /\ now >= 150
    /\ 1 \in DOMAIN rate_limit
    /\ rate_limit[1].count > 1
    /\ rate_limit[2] = [count |-> 1, start_time |-> now]

\* Every user in the dict has a count between 1 and N.
CountInRange ==
    \A u \in DOMAIN rate_limit :
        rate_limit[u].count >= 1 /\ rate_limit[u].count <= RATE_LIMIT_COUNT

\* A user stays in the dict and the start of its window does not decrease.
WindowStartKept ==
    \A u \in DOMAIN rate_limit :
        /\ u \in DOMAIN rate_limit'
        /\ rate_limit'[u].start_time >= rate_limit[u].start_time

\* C30: in every reachable state, each user present in the rate-limit map
\* has, after any check_rate_limit call returns, a count between 1 and N
\* inclusive; the count never exceeds N, and a user's window start never moves
\* backwards.
C30_CountBoundsWindowForward ==
    /\ []CountInRange
    /\ [][WindowStartKept]_vars

\* C30 witness: user 1 stands at count N while user 2, whose count had reached
\* N too, has just started a new window more than W seconds after its first.
C30_Witness ==
    /\ 1 \in DOMAIN rate_limit
    /\ rate_limit[1].count = RATE_LIMIT_COUNT
    /\ call # NoCall
    /\ call.user = 2
    /\ call.known
    /\ call.before = RATE_LIMIT_COUNT
    /\ call.elapsed > RATE_LIMIT_WINDOW
    /\ rate_limit[2] = [count |-> 1, start_time |-> now]

\* C31: a denied check_rate_limit call leaves the user's count and window
\* start exactly as they were before the call; denied calls neither extend
\* the penalty nor count as requests.
C31_DeniedCallChangesNothing ==
    [][(call' # NoCall /\ call'.is_limited) =>
            /\ call'.user \in DOMAIN rate_limit
            /\ rate_limit'[call'.user] = rate_limit[call'.user]]_vars

\* C31 witness: a user whose count stands at N has just been denied, 149
\* seconds or more after the start of its window, and the entry still holds
\* count N and that window start.
C31_Witness ==
    /\ call # NoCall
    /\ call.is_limited
    /\ call.elapsed >= 149
    /\ rate_limit[call.user] =
           [count |-> RATE_LIMIT_COUNT, start_time |-> now - call.elapsed]

\* The path condition of bot.py:95: the window has not expired, the count
\* has reached the limit, and no cooldown time remains.
LateReset(c) ==
    /\ ~WindowExpired(c.elapsed)
    /\ LimitReached(c.before)
    /\ RATE_LIMIT_COOLDOWN - c.elapsed <= 0

\* C32: every denial reports a remaining time of at least C - W (300)
\* seconds; a denial occurs only while elapsed <= W, so the branch handling
\* remaining <= 0 is never taken, and a limited user is allowed again as soon
\* as more than W seconds have passed since the window start.
C32_DenialReportsAtLeastHalf ==
    (call # NoCall /\ call.known) =>
        /\ call.is_limited =>
               /\ call.elapsed <= RATE_LIMIT_WINDOW
               /\ call.minutes * 60 + call.seconds >=
                      RATE_LIMIT_COOLDOWN - RATE_LIMIT_WINDOW
        /\ ~LateReset(call)
        /\ (call.before >= RATE_LIMIT_COUNT /\ call.elapsed > RATE_LIMIT_WINDOW) =>
               ~call.is_limited

\* C32 witness: a limited user has just been denied exactly W seconds after
\* its window start, with 5 minutes 0 seconds reported.
C32_Witness ==
    /\ call # NoCall
    /\ call.is_limited
    /\ call.elapsed = RATE_LIMIT_WINDOW
    /\ call.minutes * 60 + call.seconds = RATE_LIMIT_COOLDOWN - RATE_LIMIT_WINDOW

\* C33: a check made exactly W seconds after the window start does not reset
\* the window: it is denied if the count has reached N and otherwise
\* increments the count; only a check strictly later than W resets.
C33_NoResetAtExactlyW ==
    (call # NoCall /\ call.known) =>
        LET user_data == rate_limit[call.user]
        IN  /\ call.elapsed = RATE_LIMIT_WINDOW =>
                   /\ user_data.start_time = now - RATE_LIMIT_WINDOW
                   /\ IF call.before >= RATE_LIMIT_COUNT
                      THEN call.is_limited /\ user_data.count = call.before
                      ELSE ~call.is_limited /\ user_data.count = call.before + 1
            /\ user_data.start_time # now - call.elapsed =>
                   call.elapsed > RATE_LIMIT_WINDOW

\* C33 witness: a check made exactly W seconds after the window start, with
\* the count below N, was allowed and raised the count by one.
C33_Witness ==
    /\ call # NoCall
    /\ call.known
    /\ call.elapsed = RATE_LIMIT_WINDOW
    /\ call.before > 1
    /\ call.before < RATE_LIMIT_COUNT
    /\ rate_limit[call.user] =
           [count |-> call.before + 1, start_time |-> now - RATE_LIMIT_WINDOW]

(* ------------------------------------------------------------------ *)
(* check_rate_limit with the clock read to a fraction of a second      *)
(*                                                                     *)
(* datetime.now() has microseconds and total_seconds() is a float: two *)
(* calls of one user may lie less than a second apart. Here the clock  *)
(* counts ticks, PerSecond of them to the second.                      *)
(* ------------------------------------------------------------------ *)

\* The ticks of the clock in one second.
PerSecond == 2

\* The clock stops advancing past MaxFineTime seconds.
MaxFineTime == 120

\* The amounts, in ticks, by which the clock advances between two calls: one
\* tick, one second, one tick less than a minute.
FineSteps == {1, PerSecond, 60 * PerSecond - 1}

\* No denied call came before.
NoDenial == [denied |-> FALSE]

\* bot.py:99, mutated: the seconds are not reduced to those past the minute.
SecondsOfAll(remaining) == remaining \div PerSecond

\* bot.py:99, int(remaining // 60), remaining in ticks.
MinutesOf(remaining) == remaining \div (60 * PerSecond)

\* bot.py:100, int(remaining % 60), remaining in ticks.
SecondsOf(remaining) == (remaining % (60 * PerSecond)) \div PerSecond

\* bot.py:80-104 with current_time and start_time in ticks: the new dict and
\* the returned tuple.
check_rate_limit_fine(rl, user_id, current_time) ==
    LET rl1 == WithEntry(rl, user_id, current_time)
        user_data == rl1[user_id]
        elapsed == Elapsed(user_data, current_time)
        remaining == RATE_LIMIT_COOLDOWN * PerSecond - elapsed
    IN  IF elapsed > RATE_LIMIT_WINDOW * PerSecond
        THEN [rl |-> [rl1 EXCEPT ![user_id] = ResetData(current_time)],
              out |-> Returned(FALSE, 0, 0)]
        ELSE IF LimitReached(user_data.count)
        THEN IF remaining <= 0
             THEN [rl |-> [rl1 EXCEPT ![user_id] = ResetData(current_time)],
                   out |-> Returned(FALSE, 0, 0)]
             ELSE [rl |-> rl1,
                   out |-> Returned(TRUE, MinutesOf(remaining), SecondsOf(remaining))]
        ELSE [rl |-> [rl1 EXCEPT ![user_id].count = user_data.count + 1],
              out |-> Returned(FALSE, 0, 0)]

\* Observer: what a call found and returned.
FineCallRecord(rl, user_id, r) ==
    [user |-> user_id,
     t |-> fine_now,
     elapsed |-> IF user_id \in DOMAIN rl THEN fine_now - rl[user_id].start_time ELSE 0,
     is_limited |-> r.out.is_limited,
     minutes |-> r.out.minutes,
     seconds |-> r.out.seconds]

\* Observer: the call as the one before the next call.
AsLast(c) ==
    IF c.is_limited
    THEN [denied |-> TRUE, t |-> c.t, minutes |-> c.minutes, seconds |-> c.seconds]
    ELSE NoDenial

\* A handler calls check_rate_limit(1).
FineCheck ==
    LET r == check_rate_limit_fine(fine_limit, 1, fine_now)
    IN  /\ fine_limit' = r.rl
        /\ fine_call' = FineCallRecord(fine_limit, 1, r)
        /\ fine_last' = IF fine_call # NoCall THEN AsLast(fine_call) ELSE fine_last
        /\ UNCHANGED fine_now
        /\ UNCHANGED <<rlVars, vidVars, botVars, profVars, fmtVars, obsVars, regVars, pureVars, taskVars>>

\* Time passes between two calls; the clock of the model starts with the first
\* call.
FineTick ==
    \E d \in FineSteps :
        /\ fine_limit # <<>>
        /\ fine_now + d <= MaxFineTime * PerSecond
        /\ fine_now' = fine_now + d
        /\ fine_call' = NoCall
        /\ fine_last' = IF fine_call # NoCall THEN AsLast(fine_call) ELSE fine_last
        /\ UNCHANGED fine_limit
        /\ UNCHANGED <<rlVars, vidVars, botVars, profVars, fmtVars, obsVars, regVars, pureVars, taskVars>>

NextFine == FineCheck \/ FineTick

\* One user calls check_rate_limit at times a fraction of a second apart.
SpecFine == Init /\ [][NextFine]_vars

\* The seconds a denial reports.
Reported(c) == c.minutes * 60 + c.seconds

\* A denial reports floor(C - elapsed) seconds, split into minutes and
\* seconds below 60.
ReportsFloor ==
    (fine_call # NoCall /\ fine_call.is_limited) =>
        /\ Reported(fine_call)
               = (RATE_LIMIT_COOLDOWN * PerSecond - fine_call.elapsed) \div PerSecond
        /\ fine_call.seconds >= 0
        /\ fine_call.seconds <= 59

\* The call is a denial, the call before it was one too, and time has passed
\* between the two.
DeniedAgainLater ==
    /\ fine_call # NoCall
    /\ fine_call.is_limited
    /\ fine_last.denied
    /\ fine_call.t > fine_last.t

\* C23 (as claimed): whenever check_rate_limit denies, the reported minutes
\* and seconds satisfy minutes*60 + seconds = floor(C - elapsed) with
\* 0 <= seconds <= 59, where elapsed is the time since the user's window
\* start; consequently across successive denied calls at increasing times the
\* reported remaining time strictly decreases.
C23_RemainingStrictlyDecreases ==
    /\ ReportsFloor
    /\ DeniedAgainLater => Reported(fine_call) < Reported(fine_last)

\* C23 (amended): the same split of floor(C - elapsed); across successive
\* denied calls at increasing times the reported remaining time never
\* increases, and it strictly decreases when the calls are a second or more
\* apart.
C23_RemainingDecreases ==
    /\ ReportsFloor
    /\ DeniedAgainLater =>
        /\ Reported(fine_call) <= Reported(fine_last)
        /\ fine_call.t - fine_last.t >= PerSecond =>
               Reported(fine_call) < Reported(fine_last)

\* C23 witness: two denials less than a second apart report the same 9 minutes
\* and 59 seconds.
C23_Witness ==
    /\ DeniedAgainLater
    /\ fine_call.t - fine_last.t < PerSecond
    /\ fine_call.minutes = 9 /\ fine_call.seconds = 59
    /\ fine_last.minutes = 9 /\ fine_last.seconds = 59

(* ------------------------------------------------------------------ *)
(* TikTokScraper.get_video_no_watermark (scraper.py:114-192)           *)
(* ------------------------------------------------------------------ *)

\* The truth value of a string or None.
Truthy(v) == v # None /\ v # ""

\* a or b, of Python.
PyOr(a, b) == IF Truthy(a) THEN a ELSE b

\* The urls a caller passes: a full video link and a vm.tiktok.com short link.
VideoUrls == {"https://www.tiktok.com/@a/video/1", "https://vm.tiktok.com/x"}

\* scraper.py:119
IsShortLink(url) == url = "https://vm.tiktok.com/x"

\* scraper.py:123, str(response.url) after the redirects of the HEAD request.
Canonical == "https://www.tiktok.com/@b/video/2"

\* What the HEAD request of scraper.py:121-122 does: it answers or it raises.
HeadOutcomes == {"ok", "raise"}

\* A value of a media URL field of an upstream payload.
MediaValues(u) == {None, "", u}

\* The dict returned on success (scraper.py:156-164, 180-188, 219-227); the
\* metadata fields are read from the payload and do not decide the control flow.
VideoRecord(video_url) == [error |-> FALSE, video_url |-> video_url]

\* scraper.py:192
VideoFailure == [error |-> TRUE]

\* A method that returns no dict: None, or a swallowed exception.
NoDict == [none |-> TRUE]

\* What ydl.extract_info (scraper.py:204-206) does: it raises, returns None, or
\* returns an info dict with a "url" and a list of "formats".
YtdlpInfos ==
    {[kind |-> "raise", url |-> None, formats |-> <<>>],
     [kind |-> "none", url |-> None, formats |-> <<>>]}
    \cup [kind : {"info"}, url : MediaValues("yt"),
          formats : {<<>>, <<None>>, <<"f1", None>>, <<"f1", "f2">>}]

\* scraper.py:213-217: the url of the last format that has one.
LastFormatUrl(formats) ==
    LET withUrl == {i \in 1..Len(formats) : Truthy(formats[i])}
    IN  IF withUrl = {} THEN None
        ELSE formats[CHOOSE i \in withUrl : \A j \in withUrl : j <= i]

\* scraper.py:194-230, _ytdlp_download: a record or None.
ytdlp_download(info) ==
    IF info.kind # "info"
    THEN NoDict
    ELSE LET video_url == IF Truthy(info.url) THEN info.url
                          ELSE LastFormatUrl(info.formats)
         IN  IF Truthy(video_url) THEN VideoRecord(video_url) ELSE NoDict

\* scraper.py:131, mutated: the negation is lost, a result is never returned.
Method1ReturnsNever(result) == result # NoDict /\ result.error

\* scraper.py:131, mutated: whatever method 1 came back with is returned.
Method1ReturnsAnything(result) == TRUE

\* scraper.py:131
Method1Returns(result) == result # NoDict /\ ~result.error

\* What the GET of scraper.py:138-150 finds: the request raises, the page has no
\* script tag, its JSON does not parse, or it parses to a payload with the two
\* address fields; "fault" is a payload with a null or non-dict sub-object,
\* whose reading raises.
PageResponses ==
    {[kind |-> k, shape |-> "ok", downloadAddr |-> None, playAddr |-> None] :
        k \in {"raise", "nomatch", "badjson"}}
    \cup [kind : {"data"}, shape : {"ok", "fault"},
          downloadAddr : MediaValues("dl"), playAddr : MediaValues("pl")]

\* scraper.py:137-166, method 2: the record returned, or None when the block
\* falls through or its exception is swallowed.
page_method(resp) ==
    IF resp.kind # "data" \/ resp.shape = "fault"
    THEN NoDict
    ELSE LET download_url == PyOr(resp.downloadAddr, resp.playAddr)
         IN  IF Truthy(download_url) THEN VideoRecord(download_url) ELSE NoDict

\* What the POST of scraper.py:172-176 answers: the request raises, the body is
\* no JSON, or it is a payload with "code", "data" and the two play fields.
ApiResponses ==
    {[kind |-> k, shape |-> "ok", code |-> -1, has_data |-> FALSE,
      hdplay |-> None, play |-> None] : k \in {"raise", "badjson"}}
    \cup [kind : {"data"}, shape : {"ok", "fault"}, code : {0, -1},
          has_data : BOOLEAN, hdplay : MediaValues("hd"), play : MediaValues("sd")]

\* scraper.py:178
ApiAccepts(resp) == resp.code = 0 /\ resp.has_data

\* scraper.py:168-190, method 3: the record returned, or None when the block
\* falls through or its exception is swallowed.
api_method(resp) ==
    IF resp.kind # "data"
    THEN NoDict
    ELSE IF ApiAccepts(resp)
    THEN IF resp.shape = "fault" THEN NoDict
         ELSE VideoRecord(PyOr(resp.hdplay, resp.play))
    ELSE NoDict

\* Observer: a strategy was invoked with url, upstream answered resp, and the
\* strategy came back with a dict (returned) holding the media URL got.
Invoked(name, url, resp, result) ==
    [name |-> name, url |-> url, resp |-> resp,
     returned |-> result # NoDict,
     got |-> IF result = NoDict THEN None ELSE result.video_url]

\* scraper.py:114-116: the call starts.
VideoCall(url) ==
    /\ vpc = "idle"
    /\ vpc' = "resolve"
    /\ vurl' = url
    /\ vcalls' = <<>>
    /\ vresult' = VideoFailure
    /\ UNCHANGED HAS_YTDLP
    /\ UNCHANGED <<rlVars, botVars, profVars, fmtVars, obsVars, regVars, pureVars, fineVars, taskVars>>

\* scraper.py:120-125, mutated: a HEAD request that raises loses the url.
RedirectedOrLost(url, h) == IF h = "ok" THEN Canonical ELSE ""

\* scraper.py:120-125: the url after the HEAD request, str(response.url) when
\* it answered and the url as it was when it raised (except Exception: pass).
Redirected(url, h) == IF h = "ok" THEN Canonical ELSE url

\* scraper.py:118-125: a short link is resolved by a HEAD request; when the
\* request raises the url stays as it is.
VideoResolveShort ==
    /\ vpc = "resolve"
    /\ vpc' = "m1"
    /\ IF IsShortLink(vurl)
       THEN \E h \in HeadOutcomes :
                /\ vurl' = Redirected(vurl, h)
                /\ vcalls' = Append(vcalls, [name |-> "head", url |-> vurl, resp |-> h,
                                          returned |-> FALSE, got |-> None])
       ELSE UNCHANGED <<vurl, vcalls>>
    /\ UNCHANGED <<HAS_YTDLP, vresult>>
    /\ UNCHANGED <<rlVars, botVars, profVars, fmtVars, obsVars, regVars, pureVars, fineVars, taskVars>>

\* scraper.py:127-134, method 1.
VideoMethod1 ==
    /\ vpc = "m1"
    /\ IF HAS_YTDLP
       THEN \E info \in YtdlpInfos :
                LET result == ytdlp_download(info)
                IN  /\ vcalls' = Append(vcalls, Invoked("ytdlp", vurl, info, result))
                    /\ IF Method1Returns(result)
                       THEN vpc' = "done" /\ vresult' = result
                       ELSE vpc' = "m2" /\ UNCHANGED vresult
       ELSE vpc' = "m2" /\ UNCHANGED <<vcalls, vresult>>
    /\ UNCHANGED <<HAS_YTDLP, vurl>>
    /\ UNCHANGED <<rlVars, botVars, profVars, fmtVars, obsVars, regVars, pureVars, fineVars, taskVars>>

\* scraper.py:206-210: ydl.extract_info does not come back. The executor call is
\* awaited without a timeout (no asyncio.wait_for, no timeout among ydl_opts),
\* so the coroutine stays at its await; the requests of the other steps carry
\* timeout=10, 15 or 20 and raise instead, which their outcome "raise" covers.
VideoMethod1Hangs ==
    /\ vpc = "m1"
    /\ HAS_YTDLP
    /\ vpc' = "m1_hung"
    /\ UNCHANGED <<HAS_YTDLP, vurl, vcalls, vresult>>
    /\ UNCHANGED <<rlVars, botVars, profVars, fmtVars, obsVars, regVars, pureVars, fineVars, taskVars>>

\* scraper.py:136-166, method 2.
VideoMethod2 ==
    /\ vpc = "m2"
    /\ \E resp \in PageResponses :
           LET result == page_method(resp)
           IN  /\ vcalls' = Append(vcalls, Invoked("page", vurl, resp, result))
               /\ IF result # NoDict
                  THEN vpc' = "done" /\ vresult' = result
                  ELSE vpc' = "m3" /\ UNCHANGED vresult
    /\ UNCHANGED <<HAS_YTDLP, vurl>>
    /\ UNCHANGED <<rlVars, botVars, profVars, fmtVars, obsVars, regVars, pureVars, fineVars, taskVars>>

\* scraper.py:168-192, method 3 and the final return.
VideoMethod3 ==
    /\ vpc = "m3"
    /\ \E resp \in ApiResponses :
           LET result == api_method(resp)
           IN  /\ vcalls' = Append(vcalls, Invoked("api", vurl, resp, result))
               /\ vresult' = IF result # NoDict THEN result ELSE VideoFailure
    /\ vpc' = "done"
    /\ UNCHANGED <<HAS_YTDLP, vurl>>
    /\ UNCHANGED <<rlVars, botVars, profVars, fmtVars, obsVars, regVars, pureVars, fineVars, taskVars>>

\* The caller has the dict; the next call may start.
VideoReturn ==
    /\ vpc = "done"
    /\ vpc' = "idle"
    /\ vurl' = ""
    /\ vcalls' = <<>>
    /\ vresult' = VideoFailure
    /\ UNCHANGED HAS_YTDLP
    /\ UNCHANGED <<rlVars, botVars, profVars, fmtVars, obsVars, regVars, pureVars, fineVars, taskVars>>

NextVideo ==
    \/ \E url \in VideoUrls : VideoCall(url)
    \/ VideoResolveShort
    \/ VideoMethod1
    \/ VideoMethod1Hangs
    \/ VideoMethod2
    \/ VideoMethod3
    \/ VideoReturn

\* The process was started with or without yt_dlp installed.
InitWithOrWithoutYtdlp ==
    /\ InitRL
    /\ InitObserved
    /\ InitTasks
    /\ InitFine
    /\ InitPure
    /\ InitRegion
    /\ InitFormat
    /\ InitVideo
    /\ InitBot
    /\ InitProfile
    /\ HAS_YTDLP \in BOOLEAN

\* Calls of get_video_no_watermark, one after the other.
SpecVideo == InitWithOrWithoutYtdlp /\ [][NextVideo]_vars

\* The same calls on an event loop that runs every coroutine that can go on.
SpecVideoLive == InitWithOrWithoutYtdlp /\ [][NextVideo]_vars /\ WF_vars(NextVideo)

(* ------------------------------------------------------------------ *)
(* Claims about get_video_no_watermark                                 *)
(* ------------------------------------------------------------------ *)

IsStrategy(c) == c.name # "head"

\* The strategies the call has invoked so far, in order.
Strategies == SelectSeq(vcalls, IsStrategy)

\* The order of the strategies: extraction library (when installed), page
\* scrape, aggregation API.
StrategyOrder ==
    IF HAS_YTDLP THEN <<"ytdlp", "page", "api">> ELSE <<"page", "api">>

\* C8: get_video_no_watermark tries its strategies in the fixed order
\* extraction library, page scrape, aggregation API; as soon as one strategy
\* yields a non-empty media URL the result is returned and no later strategy
\* is invoked.
C8_FixedOrderFirstSuccess ==
    /\ Len(Strategies) <= Len(StrategyOrder)
    /\ \A i \in 1..Len(Strategies) :
        /\ Strategies[i].name = StrategyOrder[i]
        /\ Truthy(Strategies[i].got) =>
            /\ i = Len(Strategies)
            /\ vpc = "done"
            /\ vresult = VideoRecord(Strategies[i].got)

\* C8 witness: a short link was resolved, the extraction library yielded a
\* media URL, and the call returned it with no other strategy invoked.
C8_Witness ==
    /\ vpc = "done"
    /\ Len(vcalls) = 2
    /\ vcalls[1].name = "head" /\ vcalls[1].resp = "ok"
    /\ vcalls[2].name = "ytdlp" /\ vcalls[2].url = Canonical
    /\ vresult = VideoRecord("f2")

\* Observer: the upstream response of an invoked strategy holds a media URL.
HasMediaUrl(c) ==
    CASE c.name = "ytdlp" ->
            /\ c.resp.kind = "info"
            /\ \/ Truthy(c.resp.url)
               \/ \E i \in 1..Len(c.resp.formats) : Truthy(c.resp.formats[i])
      [] c.name = "page" ->
            /\ c.resp.kind = "data"
            /\ (Truthy(c.resp.downloadAddr) \/ Truthy(c.resp.playAddr))
      [] c.name = "api" ->
            /\ c.resp.kind = "data"
            /\ (Truthy(c.resp.hdplay) \/ Truthy(c.resp.play))
      [] OTHER -> FALSE

\* C9: every successful outcome of get_video_no_watermark (error flag false)
\* carries a non-empty media URL; a strategy whose upstream response contains
\* no media URL counts as failed and never produces a success record, for
\* each of the three strategies.
C9_SuccessHasMediaUrl ==
    /\ (vpc = "done" /\ ~vresult.error) => Truthy(vresult.video_url)
    /\ \A i \in 1..Len(Strategies) :
        ~HasMediaUrl(Strategies[i]) => ~Strategies[i].returned

\* C10: if every video strategy fails, by returning nothing usable or by
\* raising, get_video_no_watermark returns the failure outcome {"error": True}.
C10_AllFailIsFailure ==
    (vpc = "done" /\ \A i \in 1..Len(Strategies) : ~Truthy(Strategies[i].got))
        => vresult = VideoFailure

\* The urls the strategies invoked after the i-th entry of the call log were
\* given.
UrlsAfter(i) == {vcalls[j].url : j \in (i + 1)..Len(vcalls)}

\* C25: when the URL matches a short-link domain and the redirect-resolution
\* step fails with any exception, get_video_no_watermark continues the
\* strategy chain with the original URL unchanged; when the step succeeds,
\* every strategy receives the resolved URL.
C25_ShortLinkResolution ==
    \A i \in 1..Len(vcalls) :
        vcalls[i].name = "head" =>
            /\ IsShortLink(vcalls[i].url)
            /\ vcalls[i].resp = "raise" =>
                /\ UrlsAfter(i) \subseteq {vcalls[i].url}
                /\ vpc \in {"m1", "m1_hung", "m2", "m3"} => vurl = vcalls[i].url
                /\ vpc = "done" => Strategies # <<>>
            /\ vcalls[i].resp = "ok" =>
                /\ UrlsAfter(i) \subseteq {Canonical}
                /\ vpc \in {"m1", "m1_hung", "m2", "m3"} => vurl = Canonical

\* C25 witness: the HEAD request of a short link raised and the three
\* strategies were then invoked, each with the short link itself.
C25_Witness ==
    /\ vpc = "done"
    /\ Len(vcalls) = 4
    /\ vcalls[1].name = "head" /\ vcalls[1].resp = "raise"
    /\ IsShortLink(vcalls[1].url)
    /\ \A j \in 2..4 : vcalls[j].url = vcalls[1].url
    /\ vcalls[4].name = "api"

IsLaterStrategy(c) == c.name \in {"page", "api"}

\* The page scrape and the API fallback, as far as the call has invoked them.
LaterStrategies == SelectSeq(vcalls, IsLaterStrategy)

\* Strategy 1 is out of the way: yt_dlp is absent, or it was tried and came
\* back with nothing.
Strategy1Out ==
    \/ ~HAS_YTDLP
    \/ /\ Strategies # <<>>
       /\ Strategies[1].name = "ytdlp"
       /\ ~Strategies[1].returned

\* What the call returns once strategy 1 is out of the way, as a function of
\* what the two later strategies came back with.
LaterOutcome(later) ==
    IF later[1].returned THEN VideoRecord(later[1].got)
    ELSE IF later[2].returned THEN VideoRecord(later[2].got)
    ELSE VideoFailure

\* With strategy 1 out of the way, absent or failed alike, the page scrape
\* comes first, the API fallback follows when the page scrape yielded nothing,
\* and the outcome is that of these two.
LaterChainDecides ==
    (vpc = "done" /\ Strategy1Out) =>
        /\ Len(LaterStrategies) >= 1
        /\ LaterStrategies[1].name = "page"
        /\ Len(LaterStrategies) = (IF LaterStrategies[1].returned THEN 1 ELSE 2)
        /\ Len(LaterStrategies) = 2 => LaterStrategies[2].name = "api"
        /\ vresult = LaterOutcome(LaterStrategies)

\* The step past strategy 1 leaves the call where a failed strategy 1 leaves
\* it: at the page scrape, with the same url and no result.
PastStrategy1 ==
    (vpc = "m1" /\ vpc' # "m1_hung" /\ (~HAS_YTDLP \/ ~vcalls'[Len(vcalls')].returned)) =>
        /\ vpc' = "m2"
        /\ vurl' = vurl
        /\ vresult' = vresult

\* C26: when the optional extraction library is absent,
\* get_video_no_watermark behaves exactly as if strategy 1 had been tried and
\* failed: page scrape and then the API fallback are still attempted in that
\* order, and the outcome equals that of the chain with a failing strategy 1.
C26_AbsentAsFailed ==
    /\ []LaterChainDecides
    /\ [][PastStrategy1]_vars

\* C26 witness: without yt_dlp the page scrape was tried and yielded nothing,
\* the API fallback was tried next and its media URL was returned.
C26_Witness ==
    /\ ~HAS_YTDLP
    /\ vpc = "done"
    /\ Len(Strategies) = 2
    /\ Strategies[1].name = "page" /\ ~Strategies[1].returned
    /\ Strategies[2].name = "api" /\ Strategies[2].got = "hd"
    /\ vresult = VideoRecord("hd")

(* ------------------------------------------------------------------ *)
(* The handlers of bot.py                                              *)
(*                                                                     *)
(* Application.builder().token(...).build() (bot.py:928) handles one   *)
(* update at a time: a handler runs to its end before the next update  *)
(* is dispatched. A handler is cut at its awaits of the scraper; the   *)
(* awaits of Telegram replies neither read nor write the shared dicts  *)
(* and are taken not to raise. The handlers that touch only user_langs *)
(* (start, help, lang) are left out.                                   *)
(* ------------------------------------------------------------------ *)

\* The users who talk to the bot.
BotUsers == {1}

\* The uniqueId of the profiles upstream can answer with.
BotNames == {"a"}

\* bot.py:122-123, the length search history is cut to.
HISTORY_MAX == 20

\* Upstream stops finding profiles for a user whose history holds this many
\* entries.
MaxHistory == 1

\* What the user sends as a text message: one word, or two words.
Texts == {1, 2}

\* bot.py:120, strftime("%Y-%m-%d %H:%M"): the time to the minute.
Stamp(t) == t \div 60

\* bot.py:121, mutated: the entry is appended at the end of the list.
save_to_history_at_end(sh, user_id, username, t) ==
    LET sh1 == IF user_id \in DOMAIN sh THEN sh ELSE sh @@ (user_id :> <<>>)
        ins == Append(sh1[user_id], [username |-> username, time |-> Stamp(t)])
    IN  [sh1 EXCEPT ![user_id] =
            IF Len(ins) > HISTORY_MAX THEN SubSeq(ins, 1, HISTORY_MAX) ELSE ins]

\* bot.py:118, mutated: the entry is inserted twice.
save_to_history_twice(sh, user_id, username, t) ==
    LET sh1 == IF user_id \in DOMAIN sh THEN sh ELSE sh @@ (user_id :> <<>>)
        e == [username |-> username, time |-> Stamp(t)]
        ins == <<e, e>> \o sh1[user_id]
    IN  [sh1 EXCEPT ![user_id] =
            IF Len(ins) > HISTORY_MAX THEN SubSeq(ins, 1, HISTORY_MAX) ELSE ins]

\* bot.py:114-123
save_to_history(sh, user_id, username, t) ==
    LET sh1 == IF user_id \in DOMAIN sh THEN sh ELSE sh @@ (user_id :> <<>>)
        ins == <<[username |-> username, time |-> Stamp(t)]>> \o sh1[user_id]
    IN  [sh1 EXCEPT ![user_id] =
            IF Len(ins) > HISTORY_MAX THEN SubSeq(ins, 1, HISTORY_MAX) ELSE ins]

\* bot.py:493 and 834, mutated: the names are compared as they are written.
LowerKept(name) == name

\* str.lower() on the usernames of the model.
Lower(name) == IF name = "A" THEN "a" ELSE name

\* bot.py:490-496 and 831-837: append unless present in any letter case.
add_favorite(fav, user_id, username) ==
    LET fav1 == IF user_id \in DOMAIN fav THEN fav ELSE fav @@ (user_id :> <<>>)
        lowered == {Lower(fav1[user_id][i]) : i \in 1..Len(fav1[user_id])}
    IN  IF Lower(username) \in lowered
        THEN fav1
        ELSE [fav1 EXCEPT ![user_id] = Append(fav1[user_id], username)]

KeepsFavorite(f, username) == Lower(f) # Lower(username)

\* bot.py:843-844
remove_favorite(fav, user_id, username) ==
    IF user_id \in DOMAIN fav
    THEN LET Keep(f) == KeepsFavorite(f, username)
         IN  [fav EXCEPT ![user_id] = SelectSeq(fav[user_id], Keep)]
    ELSE fav

\* What get_user_by_username and get_user_by_id hand to a handler: the failure
\* dict or a formatted profile.
ProfileResults ==
    {[error |-> TRUE, username |-> None]}
    \cup {[error |-> FALSE, username |-> n] : n \in BotNames}

\* What get_video_no_watermark hands to a handler.
VideoResults == {VideoFailure, VideoRecord("hd"), VideoRecord(None)}

\* The handlers that call save_to_history on a profile (bot.py:247, 307, 506,
\* 582, 624, 662).
Saves(handler) ==
    handler \in {"handle_username_input", "handle_id_input", "callback:favsearch",
                 "pending:none", "pending:search", "pending:id"}

\* The conversation a handler belongs to (bot.py:931-953).
ConversationOf(handler) ==
    CASE handler \in {"search_command", "handle_username_input"} -> "search"
      [] handler \in {"id_command", "handle_id_input"} -> "id"
      [] handler \in {"video_command", "handle_video_input"} -> "video"
      [] handler \in {"compare_command", "handle_compare_input"} -> "compare"
      [] OTHER -> None

\* The entry point of a conversation (bot.py:932, 938, 944, 950).
CommandOf(c) ==
    CASE c = "search" -> "search_command"
      [] c = "id" -> "id_command"
      [] c = "video" -> "video_command"
      [] c = "compare" -> "compare_command"

\* A handler starts on an update of user u.
Started(u, handler) ==
    [pc |-> "run", user |-> u, handler |-> handler,
     checked |-> "no",      \* what check_rate_limit told this handler
     fetch |-> "none",      \* the scraper call it awaits
     fetches |-> 0,         \* the scraper calls it has made
     first_error |-> FALSE, \* compare: result1.get("error")
     saved |-> 0,           \* its calls of save_to_history
     faved |-> 0,           \* its changes of favorites
     shown |-> FALSE]       \* whether it sent a profile, a raw file or a video

\* Observer: what the call told the handler.
Told(out) == IF out.is_limited THEN "limited" ELSE "allowed"

\* bot.py:226, mutated: the handler goes on whatever check_rate_limit returned.
DeniedIgnored(out) == FALSE

\* bot.py:226, 286, 345, 459, 571, 613, 651, 755: if is_limited: reply, return.
Denied(out) == out.is_limited

\* The handler awaits a scraper call.
Fetching(t, kind) ==
    [t EXCEPT !.pc = "fetch", !.fetch = kind, !.fetches = t.fetches + 1]

\* The handler returns, mutated: a handler that awaited the scraper calls it
\* again, up to three times.
FetchedAgain(t) ==
    IF t.pc = "fetch" /\ t.fetches < 3
    THEN [t EXCEPT !.fetches = t.fetches + 1]
    ELSE [t EXCEPT !.pc = "done", !.fetch = "none"]

\* The handler returns.
Finished(t) == [t EXCEPT !.pc = "done", !.fetch = "none"]

\* No update is being handled.
Idle == task.pc \in {"none", "done"}

\* The conversation whose handler takes a text message: the first one, in the
\* order of registration, the user is in; None when the user is in none.
ActiveConversation(u) ==
    LET waiting == {i \in 1..Len(Conversations) : conv[u][Conversations[i]].waiting}
    IN  IF waiting = {} THEN None
        ELSE Conversations[CHOOSE i \in waiting : \A j \in waiting : i <= j]

\* bot.py:221-231, 281-291, 340-350, 751-759: /search, /id, /video, /compare.
EntryCommand(u, c) ==
    /\ Idle
    /\ ~conv[u][c].waiting
    /\ LET r == check_rate_limit(rate_limit, u, now)
           t == [Started(u, CommandOf(c)) EXCEPT !.checked = Told(r.out)]
       IN  /\ rate_limit' = r.rl
           /\ call' = CallRecord(rate_limit, u, r)
           /\ task' = Finished(t)
           /\ IF Denied(r.out)
              THEN UNCHANGED conv
              ELSE conv' = [conv EXCEPT ![u][c] =
                                [waiting |-> TRUE, checked |-> Told(r.out)]]
    /\ UNCHANGED <<now, track, watch, search_history, favorites, pending_action,
                   displayed>>
    /\ UNCHANGED <<vidVars, profVars, fmtVars, obsVars, regVars, pureVars, fineVars, taskVars>>

\* bot.py:234-241, 294-301, 353-360: the text a conversation waits for arrives
\* and the handler awaits the scraper.
ConversationInput(u, c) ==
    /\ Idle
    /\ c \in {"search", "id", "video"}
    /\ ActiveConversation(u) = c
    /\ LET handler == CASE c = "search" -> "handle_username_input"
                        [] c = "id" -> "handle_id_input"
                        [] c = "video" -> "handle_video_input"
           kind == CASE c = "search" -> "username"
                     [] c = "id" -> "id"
                     [] c = "video" -> "video"
           t == [Started(u, handler) EXCEPT !.checked = conv[u][c].checked]
       IN  task' = Fetching(t, kind)
    /\ call' = NoCall
    /\ UNCHANGED <<now, rate_limit, track, watch, search_history, favorites,
                   pending_action, conv, displayed>>
    /\ UNCHANGED <<vidVars, profVars, fmtVars, obsVars, regVars, pureVars, fineVars, taskVars>>

\* bot.py:762-776: fewer than two words keep the conversation waiting.
CompareInput(u, words) ==
    /\ Idle
    /\ ActiveConversation(u) = "compare"
    /\ LET t == [Started(u, "handle_compare_input") EXCEPT
                    !.checked = conv[u]["compare"].checked]
       IN  task' = IF words < 2 THEN Finished(t) ELSE Fetching(t, "username")
    /\ call' = NoCall
    /\ UNCHANGED <<now, rate_limit, track, watch, search_history, favorites,
                   pending_action, conv, displayed>>
    /\ UNCHANGED <<vidVars, profVars, fmtVars, obsVars, regVars, pureVars, fineVars, taskVars>>

\* bot.py:561-576: a text message outside any conversation, no pending action.
PendingNone(u) ==
    /\ Idle
    /\ ActiveConversation(u) = None
    /\ pending_action[u] = None
    /\ LET r == check_rate_limit(rate_limit, u, now)
           t == [Started(u, "pending:none") EXCEPT !.checked = Told(r.out)]
       IN  /\ rate_limit' = r.rl
           /\ call' = CallRecord(rate_limit, u, r)
           /\ task' = IF Denied(r.out) THEN Finished(t) ELSE Fetching(t, "username")
    /\ UNCHANGED <<now, track, watch, search_history, favorites, pending_action,
                   conv, displayed>>
    /\ UNCHANGED <<vidVars, profVars, fmtVars, obsVars, regVars, pureVars, fineVars, taskVars>>

\* bot.py:608-618 and 649-656: the pending action "search" or "id".
PendingLookup(u) ==
    /\ Idle
    /\ ActiveConversation(u) = None
    /\ pending_action[u] \in {"search", "id"}
    /\ pending_action' = [pending_action EXCEPT ![u] = None]
    /\ LET r == check_rate_limit(rate_limit, u, now)
           handler == IF pending_action[u] = "search" THEN "pending:search"
                      ELSE "pending:id"
           kind == IF pending_action[u] = "search" THEN "username" ELSE "id"
           t == [Started(u, handler) EXCEPT !.checked = Told(r.out)]
       IN  /\ rate_limit' = r.rl
           /\ call' = CallRecord(rate_limit, u, r)
           /\ task' = IF Denied(r.out) THEN Finished(t) ELSE Fetching(t, kind)
    /\ UNCHANGED <<now, track, watch, search_history, favorites, conv, displayed>>
    /\ UNCHANGED <<vidVars, profVars, fmtVars, obsVars, regVars, pureVars, fineVars, taskVars>>

\* bot.py:608-609 and 687-695: the pending action "compare".
PendingCompare(u, words) ==
    /\ Idle
    /\ ActiveConversation(u) = None
    /\ pending_action[u] = "compare"
    /\ pending_action' = [pending_action EXCEPT ![u] = None]
    /\ LET t == Started(u, "pending:compare")
       IN  task' = IF words < 2 THEN Finished(t) ELSE Fetching(t, "username")
    /\ call' = NoCall
    /\ UNCHANGED <<now, rate_limit, track, watch, search_history, favorites, conv,
                   displayed>>
    /\ UNCHANGED <<vidVars, profVars, fmtVars, obsVars, regVars, pureVars, fineVars, taskVars>>

\* bot.py:608-609 and 723-725: the pending action "video".
PendingVideo(u) ==
    /\ Idle
    /\ ActiveConversation(u) = None
    /\ pending_action[u] = "video"
    /\ pending_action' = [pending_action EXCEPT ![u] = None]
    /\ task' = Fetching(Started(u, "pending:video"), "video")
    /\ call' = NoCall
    /\ UNCHANGED <<now, rate_limit, track, watch, search_history, favorites, conv,
                   displayed>>
    /\ UNCHANGED <<vidVars, profVars, fmtVars, obsVars, regVars, pureVars, fineVars, taskVars>>

\* bot.py:403-416: a button of the /start menu sets the pending action.
CallbackAction(u, action) ==
    /\ Idle
    /\ pending_action' = [pending_action EXCEPT ![u] = action]
    /\ task' = Finished(Started(u, "callback:action"))
    /\ call' = NoCall
    /\ UNCHANGED <<now, rate_limit, track, watch, search_history, favorites, conv,
                   displayed>>
    /\ UNCHANGED <<vidVars, profVars, fmtVars, obsVars, regVars, pureVars, fineVars, taskVars>>

\* bot.py:453-466: the refresh button under a profile.
CallbackRefresh(u) ==
    /\ Idle
    /\ displayed[u] # {}
    /\ LET r == check_rate_limit(rate_limit, u, now)
           t == [Started(u, "callback:refresh") EXCEPT !.checked = Told(r.out)]
       IN  /\ rate_limit' = r.rl
           /\ call' = CallRecord(rate_limit, u, r)
           /\ task' = IF Denied(r.out) THEN Finished(t) ELSE Fetching(t, "username")
    /\ UNCHANGED <<now, track, watch, search_history, favorites, pending_action,
                   conv, displayed>>
    /\ UNCHANGED <<vidVars, profVars, fmtVars, obsVars, regVars, pureVars, fineVars, taskVars>>

\* bot.py:488-497: the add-favorite button under a profile.
CallbackAddFav(u, username) ==
    /\ Idle
    /\ username \in displayed[u]
    /\ favorites' = add_favorite(favorites, u, username)
    /\ task' = Finished([Started(u, "callback:addfav") EXCEPT
                            !.faved = IF Entry(favorites', u) = Entry(favorites, u)
                                      THEN 0 ELSE 1])
    /\ call' = NoCall
    /\ UNCHANGED <<now, rate_limit, track, watch, search_history, pending_action,
                   conv, displayed>>
    /\ UNCHANGED <<vidVars, profVars, fmtVars, obsVars, regVars, pureVars, fineVars, taskVars>>

\* The usernames on the buttons of the favorites list and of the history list
\* (bot.py:421-438, 853-858, 878-883).
Listed(u) ==
    (IF u \in DOMAIN favorites
     THEN {favorites[u][i] : i \in 1..Len(favorites[u])} ELSE {})
    \cup (IF u \in DOMAIN search_history
          THEN {search_history[u][i].username : i \in 1..Len(search_history[u])}
          ELSE {})

\* bot.py:500-502: a button of the favorites or history list.
CallbackFavSearch(u) ==
    /\ Idle
    /\ Listed(u) # {}
    /\ task' = Fetching(Started(u, "callback:favsearch"), "username")
    /\ call' = NoCall
    /\ UNCHANGED <<now, rate_limit, track, watch, search_history, favorites,
                   pending_action, conv, displayed>>
    /\ UNCHANGED <<vidVars, profVars, fmtVars, obsVars, regVars, pureVars, fineVars, taskVars>>

\* bot.py:531-536: the raw-data button under a profile.
CallbackRaw(u) ==
    /\ Idle
    /\ displayed[u] # {}
    /\ task' = Fetching(Started(u, "callback:raw"), "username")
    /\ call' = NoCall
    /\ UNCHANGED <<now, rate_limit, track, watch, search_history, favorites,
                   pending_action, conv, displayed>>
    /\ UNCHANGED <<vidVars, profVars, fmtVars, obsVars, regVars, pureVars, fineVars, taskVars>>

\* bot.py:823-846: /fav add and /fav remove.
FavCommand(u, op, username) ==
    /\ Idle
    /\ favorites' = IF op = "add" THEN add_favorite(favorites, u, username)
                    ELSE remove_favorite(favorites, u, username)
    /\ task' = Finished([Started(u, "fav_command") EXCEPT
                            !.faved = IF Entry(favorites', u) = Entry(favorites, u)
                                      THEN 0 ELSE 1])
    /\ call' = NoCall
    /\ UNCHANGED <<now, rate_limit, track, watch, search_history, pending_action,
                   conv, displayed>>
    /\ UNCHANGED <<vidVars, profVars, fmtVars, obsVars, regVars, pureVars, fineVars, taskVars>>

\* The conversation of the handler ends (return ConversationHandler.END).
Ended(cv, t) ==
    IF ConversationOf(t.handler) = None THEN cv
    ELSE [cv EXCEPT ![t.user][ConversationOf(t.handler)] =
            [waiting |-> FALSE, checked |-> "no"]]

HistoryLen(u) == IF u \in DOMAIN search_history THEN Len(search_history[u]) ELSE 0

\* get_user_by_username or get_user_by_id returns to a handler that looks up
\* one profile (bot.py:241-275, 301-334, 464-485, 502-528, 536-555, 576-606,
\* 618-647, 656-685).
ProfileReturns ==
    /\ task.pc = "fetch"
    /\ task.fetch \in {"username", "id"}
    /\ task.handler \notin {"handle_compare_input", "pending:compare"}
    /\ \E result \in ProfileResults :
        /\ (Saves(task.handler) /\ ~result.error) => HistoryLen(task.user) < MaxHistory
        /\ IF result.error
           THEN /\ task' = Finished(task)
                /\ UNCHANGED <<search_history, displayed>>
           ELSE /\ search_history' =
                        IF Saves(task.handler)
                        THEN save_to_history(search_history, task.user,
                                             result.username, now)
                        ELSE search_history
                /\ displayed' =
                        IF task.handler = "callback:raw" THEN displayed
                        ELSE [displayed EXCEPT ![task.user] = @ \cup {result.username}]
                /\ task' = Finished([task EXCEPT
                                        !.saved = IF Saves(task.handler) THEN 1 ELSE 0,
                                        !.shown = TRUE])
    /\ conv' = Ended(conv, task)
    /\ call' = NoCall
    /\ UNCHANGED <<now, rate_limit, track, watch, favorites, pending_action>>
    /\ UNCHANGED <<vidVars, profVars, fmtVars, obsVars, regVars, pureVars, fineVars, taskVars>>

\* bot.py:695-696 and 776-777: result1 is there, the second lookup is awaited.
CompareFirstReturns ==
    /\ task.pc = "fetch"
    /\ task.handler \in {"handle_compare_input", "pending:compare"}
    /\ task.fetches = 1
    /\ \E result \in ProfileResults :
        task' = [Fetching(task, "username") EXCEPT !.first_error = result.error]
    /\ call' = NoCall
    /\ UNCHANGED <<now, rate_limit, track, watch, search_history, favorites,
                   pending_action, conv, displayed>>
    /\ UNCHANGED <<vidVars, profVars, fmtVars, obsVars, regVars, pureVars, fineVars, taskVars>>

\* bot.py:696-721 and 777-817: result2 is there.
CompareSecondReturns ==
    /\ task.pc = "fetch"
    /\ task.handler \in {"handle_compare_input", "pending:compare"}
    /\ task.fetches = 2
    /\ \E result \in ProfileResults :
        task' = Finished([task EXCEPT !.shown = ~task.first_error /\ ~result.error])
    /\ conv' = Ended(conv, task)
    /\ call' = NoCall
    /\ UNCHANGED <<now, rate_limit, track, watch, search_history, favorites,
                   pending_action, displayed>>
    /\ UNCHANGED <<vidVars, profVars, fmtVars, obsVars, regVars, pureVars, fineVars, taskVars>>

\* bot.py:360-382 and 725-745: get_video_no_watermark returns.
VideoReturns ==
    /\ task.pc = "fetch"
    /\ task.fetch = "video"
    /\ \E result \in VideoResults :
        task' = Finished([task EXCEPT
                            !.shown = ~result.error /\ Truthy(result.video_url)])
    /\ conv' = Ended(conv, task)
    /\ call' = NoCall
    /\ UNCHANGED <<now, rate_limit, track, watch, search_history, favorites,
                   pending_action, displayed>>
    /\ UNCHANGED <<vidVars, profVars, fmtVars, obsVars, regVars, pureVars, fineVars, taskVars>>

NextBot ==
    \/ \E u \in BotUsers, c \in {"search", "id", "video", "compare"} : EntryCommand(u, c)
    \/ \E u \in BotUsers, c \in {"search", "id", "video"} : ConversationInput(u, c)
    \/ \E u \in BotUsers, w \in Texts : CompareInput(u, w)
    \/ \E u \in BotUsers : PendingNone(u)
    \/ \E u \in BotUsers : PendingLookup(u)
    \/ \E u \in BotUsers, w \in Texts : PendingCompare(u, w)
    \/ \E u \in BotUsers : PendingVideo(u)
    \/ \E u \in BotUsers, a \in {"search", "id", "video", "compare"} : CallbackAction(u, a)
    \/ \E u \in BotUsers : CallbackRefresh(u)
    \/ \E u \in BotUsers, n \in BotNames : CallbackAddFav(u, n)
    \/ \E u \in BotUsers : CallbackFavSearch(u)
    \/ \E u \in BotUsers : CallbackRaw(u)
    \/ \E u \in BotUsers, op \in {"add", "remove"}, n \in BotNames : FavCommand(u, op, n)
    \/ ProfileReturns
    \/ CompareFirstReturns
    \/ CompareSecondReturns
    \/ VideoReturns

\* The bot: the updates of its users, handled one after the other.
SpecBot == Init /\ [][NextBot]_vars

(* ------------------------------------------------------------------ *)
(* Handler tasks side by side                                          *)
(*                                                                     *)
(* Several updates of one user are handled by tasks of one event loop; *)
(* a task runs from one await to the next and another task may run at  *)
(* each await. The handler is the refresh button of callback_handler   *)
(* (bot.py:388-392 and 453-486), pressed by user 1.                    *)
(* ------------------------------------------------------------------ *)

\* Observer: the checks allowed to the user since the start of its window,
\* after a check that found the dict rl and left the dict r.rl.
AllowedSince(n, rl, user_id, r) ==
    IF r.out.is_limited THEN n
    ELSE IF user_id \notin DOMAIN rl
            \/ r.rl[user_id].start_time # rl[user_id].start_time
    THEN 1
    ELSE n + 1

\* bot.py:388-391: the task starts and awaits query.answer().
TaskPress(i) ==
    /\ tasks[i] = "none"
    /\ tasks' = [tasks EXCEPT ![i] = "answer"]
    /\ call' = NoCall
    /\ UNCHANGED <<now, rate_limit, track, watch, allowed_since>>
    /\ UNCHANGED <<vidVars, botVars, profVars, fmtVars, obsVars, regVars, pureVars, fineVars>>

\* bot.py:392-466: the task goes on to check_rate_limit and then awaits the
\* reply that tells of the limit, or the scraper.
TaskCheck(i) ==
    /\ tasks[i] = "answer"
    /\ LET r == check_rate_limit(rate_limit, 1, now)
       IN  /\ rate_limit' = r.rl
           /\ call' = CallRecord(rate_limit, 1, r)
           /\ allowed_since' =
                  [allowed_since EXCEPT ![1] = AllowedSince(@, rate_limit, 1, r)]
           /\ tasks' = [tasks EXCEPT ![i] = IF r.out.is_limited THEN "reply" ELSE "fetch"]
    /\ UNCHANGED <<now, track, watch>>
    /\ UNCHANGED <<vidVars, botVars, profVars, fmtVars, obsVars, regVars, pureVars, fineVars>>

\* bot.py:468-486: the scraper came back; the task awaits its reply.
TaskFetched(i) ==
    /\ tasks[i] = "fetch"
    /\ tasks' = [tasks EXCEPT ![i] = "reply"]
    /\ call' = NoCall
    /\ UNCHANGED <<now, rate_limit, track, watch, allowed_since>>
    /\ UNCHANGED <<vidVars, botVars, profVars, fmtVars, obsVars, regVars, pureVars, fineVars>>

\* bot.py:461, 470 and 486: the reply is sent and the task ends.
TaskEnds(i) ==
    /\ tasks[i] = "reply"
    /\ tasks' = [tasks EXCEPT ![i] = "none"]
    /\ call' = NoCall
    /\ UNCHANGED <<now, rate_limit, track, watch, allowed_since>>
    /\ UNCHANGED <<vidVars, botVars, profVars, fmtVars, obsVars, regVars, pureVars, fineVars>>

NextTasks ==
    \/ \E i \in TaskIds : TaskPress(i)
    \/ \E i \in TaskIds : TaskCheck(i)
    \/ \E i \in TaskIds : TaskFetched(i)
    \/ \E i \in TaskIds : TaskEnds(i)
    \/ Tick

\* The tasks of one user, interleaved at their awaits, while time passes.
SpecTasks == Init /\ [][NextTasks]_vars

\* C24: under any interleaving of handler tasks (switching only at await
\* points), no rate-limit update is lost: between two window resets a user's
\* count equals the number of allowed checks made by that user since the
\* window start, also when several of that user's handlers run concurrently.
C24_NoLostUpdate ==
    \A u \in DOMAIN rate_limit : rate_limit[u].count = allowed_since[u]

\* C24 witness: two tasks of user 1 await the scraper at the same time, both
\* allowed in a window that began after a reset, and the count stands at N.
C24_Witness ==
    /\ \A i \in TaskIds : tasks[i] = "fetch"
    /\ 1 \in DOMAIN rate_limit
    /\ rate_limit[1].start_time > 0
    /\ rate_limit[1].count = RATE_LIMIT_COUNT

(* ------------------------------------------------------------------ *)
(* Claims about the handlers                                           *)
(* ------------------------------------------------------------------ *)

\* C5: a handler awaits get_user_by_username, get_user_by_id or
\* get_video_no_watermark only after check_rate_limit, called for its user in
\* the same handler or at the entry of the same conversation, returned
\* allowed.
C5_FetchAfterAllowedCheck == task.pc = "fetch" => task.checked = "allowed"

\* The handler that was told "limited" has returned without a scraper call,
\* without a profile, file or video sent, and its conversation is not entered.
LimitedHandlerStopped ==
    (task.pc # "none" /\ task.checked = "limited") =>
        /\ task.pc = "done"
        /\ task.fetches = 0
        /\ task.saved = 0
        /\ task.faved = 0
        /\ ~task.shown
        /\ ConversationOf(task.handler) # None =>
                ~conv[task.user][ConversationOf(task.handler)].waiting

\* The step of a handler that was told "limited" leaves search history,
\* favorites and the profiles on display as they were.
LimitedHandlerAddsNothing ==
    (task' # task /\ task'.checked = "limited") =>
        /\ search_history' = search_history
        /\ favorites' = favorites
        /\ displayed' = displayed

\* C6: when check_rate_limit returns limited inside a handler, the handler
\* makes no scraper call, adds nothing to search history or favorites, and
\* ends: its conversation is ended or the handler has returned, and nothing
\* of a profile is shown.
C6_LimitedHandlerStops ==
    /\ []LimitedHandlerStopped
    /\ [][LimitedHandlerAddsNothing]_vars

\* A handler was told "limited" by the call that follows RATE_LIMIT_COUNT
\* allowed ones, with a profile already in the user's history.
C6_Witness ==
    /\ task.pc = "done"
    /\ task.checked = "limited"
    /\ task.handler = "pending:search"
    /\ rate_limit[task.user].count = RATE_LIMIT_COUNT
    /\ HistoryLen(task.user) > 0

(* ------------------------------------------------------------------ *)
(* Upstream payloads of the profile resolvers                          *)
(*                                                                     *)
(* A Python value of a payload or of a profile record is a record      *)
(* whose one field tells its type.                                     *)
(* ------------------------------------------------------------------ *)
PyNone == [none |-> TRUE]
PyStr(s) == [str |-> s]
PyInt(i) == [int |-> i]
PyBool(b) == [bool |-> b]
PyList(l) == [list |-> l]
PyDict(d) == [dict |-> d]

\* The key is not in the dict.
Absent == [absent |-> TRUE]

IsStr(v) == "str" \in DOMAIN v
IsInt(v) == "int" \in DOMAIN v
IsDict(v) == "dict" \in DOMAIN v

\* The keys of a dict that are there.
Keys(d) == {k \in DOMAIN d : d[k] # Absent}

\* bool(v)
PyTruthy(v) ==
    CASE v = PyNone -> FALSE
      [] IsStr(v) -> v.str # ""
      [] IsInt(v) -> v.int # 0
      [] "bool" \in DOMAIN v -> v.bool
      [] "list" \in DOMAIN v -> Len(v.list) > 0
      [] IsDict(v) -> Keys(v.dict) # {}

\* d.get(key, default), d a dict that may hold key.
Get(d, key, default) ==
    IF key \in DOMAIN d /\ d[key] # Absent THEN d[key] ELSE default

\* a or b
Or(a, b) == IF PyTruthy(a) THEN a ELSE b

\* An exception left the function.
Raised == [raised |-> TRUE]

\* scraper.py:79, 103, 110: the dict of failure.
ProfileFailure == [error |-> TRUE]

\* The decimal digits of n below 1000, three of them.
Pad3(n) ==
    IF n < 10 THEN "00" \o ToString(n)
    ELSE IF n < 100 THEN "0" \o ToString(n) ELSE ToString(n)

RECURSIVE Commas(_)
\* f"{n:,}"
Commas(n) ==
    IF n < 0 THEN "-" \o Commas(-n)
    ELSE IF n < 1000 THEN ToString(n)
    ELSE Commas(n \div 1000) \o "," \o Pad3(n % 1000)

\* The strings int() reads a number from.
NumericStrings == {"42"}

\* int(v) of a string of NumericStrings.
IntOfString(s) == IF s = "42" THEN 42 ELSE 0

\* Whether int(v) returns; it raises ValueError on other strings and
\* TypeError on None, a list or a dict.
IntReturns(v) == IsInt(v) \/ "bool" \in DOMAIN v \/ (IsStr(v) /\ v.str \in NumericStrings)

\* int(v)
PyIntOf(v) ==
    CASE IsInt(v) -> v.int
      [] "bool" \in DOMAIN v -> IF v.bool THEN 1 ELSE 0
      [] IsStr(v) -> IntOfString(v.str)

\* str(v)
StrOf(v) ==
    CASE v = PyNone -> "None"
      [] IsStr(v) -> v.str
      [] IsInt(v) -> ToString(v.int)
      [] "bool" \in DOMAIN v -> IF v.bool THEN "True" ELSE "False"
      [] "list" \in DOMAIN v -> "[...]"
      [] IsDict(v) -> "{...}"

\* scraper.py:343-349
format_number(num) ==
    IF IntReturns(num) THEN PyStr(Commas(PyIntOf(num))) ELSE PyStr(StrOf(num))

\* The letters the codes of the model are spelled with, small and capital.
LowerLetters == <<"a", "e", "n", "s", "u", "x", "z">>
UpperLetters == <<"A", "E", "N", "S", "U", "X", "Z">>
Letters == {LowerLetters[i] : i \in DOMAIN LowerLetters}
               \cup {UpperLetters[i] : i \in DOMAIN UpperLetters}

\* The codes, letter by letter: none, one or two letters.
Words == {<<>>} \cup {<<c>> : c \in Letters} \cup {<<c, d>> : c, d \in Letters}

\* The string of a word.
Join(w) ==
    IF Len(w) = 0 THEN "" ELSE IF Len(w) = 1 THEN w[1] ELSE w[1] \o w[2]

\* The letters of a string.
Spell(s) == CHOOSE w \in Words : Join(w) = s

\* str.upper() of one letter.
UpperLetter(c) ==
    IF \E i \in DOMAIN LowerLetters : LowerLetters[i] = c
    THEN UpperLetters[CHOOSE i \in DOMAIN LowerLetters : LowerLetters[i] = c]
    ELSE c

\* scraper.py:317-320, mutated: the code is looked up and returned as it came.
UpperKept(s) == s

\* str.upper(), letter by letter.
Upper(s) ==
    IF \E w \in Words : Join(w) = s
    THEN Join([i \in DOMAIN Spell(s) |-> UpperLetter(Spell(s)[i])])
    ELSE s

\* str.lower() on the language codes of the model.
LowerCode(s) ==
    CASE s = "US" -> "us" [] s = "XX" -> "xx" [] s = "EN" -> "en" [] OTHER -> s

\* scraper.py:291-316, three of the 48 entries of REGION_MAP; the others are
\* read the same way. The flag that ends each label is left out.
REGION_MAP ==
    ("US" :> "United States") @@ ("SA" :> "Saudi Arabia") @@ ("AE" :> "UAE")

\* scraper.py:326-340, the entry of LANG_MAP for a code; the other 21 entries
\* are read the same way.
LANG_MAP == [c \in {"en"} |-> "English"]

\* scraper.py:288-321; region is None or a string (a truthy value of another
\* type has no upper() and the call raises); language is not read.
resolve_region(region, language) ==
    IF PyTruthy(region)
    THEN IF ~IsStr(region) THEN Raised
         ELSE IF Upper(region.str) \in DOMAIN REGION_MAP
         THEN PyStr(REGION_MAP[Upper(region.str)])
         ELSE PyStr(Upper(region.str))
    ELSE PyStr("N/A")

\* scraper.py:323-341
lang_code_to_name(code) ==
    IF ~PyTruthy(code) THEN PyStr("N/A")
    ELSE IF ~IsStr(code) THEN Raised
    ELSE IF LowerCode(code.str) \in DOMAIN LANG_MAP
    THEN PyStr(LANG_MAP[LowerCode(code.str)])
    ELSE code

\* The timestamps datetime can turn into a date run from MinDate to MaxDate
\* (year 1 to year 9999, -62135596800 to 253402300799), and those that fit the
\* time_t of the platform from MinTimeT to MaxTimeT (-2^63 to 2^63 - 1); the
\* four limits are scaled down to the integers of the model.
MaxDate == 50
MinDate == 0 - MaxDate
MaxTimeT == 60
MinTimeT == 0 - MaxTimeT - 1

\* scraper.py:237-239, mutated: the age of the account at the time of the call
\* instead of the date of its creation.
StrftimeAge(n) ==
    [date |-> [day |-> (now - n) \div 86400, hour |-> ((now - n) % 86400) \div 3600,
               minute |-> ((now - n) % 3600) \div 60]]

\* scraper.py:239, strftime("%d %b %Y %H:%M UTC"): the day, the hour and the
\* minute of a timestamp in seconds; the seconds are dropped.
Strftime(n) ==
    [date |-> [day |-> n \div 86400, hour |-> (n % 86400) \div 3600,
               minute |-> (n % 3600) \div 60]]

\* scraper.py:237-241, datetime.fromtimestamp(n, tz=timezone.utc) and the
\* except clause around it: a timestamp that does not fit time_t raises
\* OverflowError, which (ValueError, OSError) does not catch; one that fits
\* but lies outside the years 1 to 9999 raises ValueError or OSError.
FromTimestamp(n) ==
    IF n > MaxTimeT \/ n < MinTimeT THEN Raised
    ELSE IF n > MaxDate \/ n < MinDate THEN PyStr("N/A")
    ELSE Strftime(n)

\* scraper.py:234-243: the date of the timestamp, "N/A" when it is zero,
\* missing or no number; a truthy value int() rejects with TypeError raises.
Created(create_time) ==
    IF PyTruthy(create_time)
    THEN IF IntReturns(create_time) THEN FromTimestamp(PyIntOf(create_time))
         ELSE IF IsStr(create_time) THEN PyStr("N/A")
         ELSE Raised
    ELSE PyStr("N/A")

\* scraper.py:250-256
BioLink(bio_link_data) ==
    IF IsDict(bio_link_data) THEN Get(bio_link_data.dict, "link", PyStr(""))
    ELSE IF IsStr(bio_link_data) THEN bio_link_data
    ELSE PyStr("")

\* The fields of the record _format_user builds that the model keeps; the
\* fields left out are built by one of the expressions kept: "private",
\* "profile_pic" as "verified", the other five counts as "followers".
CanonicalFields ==
    {"username", "nickname", "user_id", "bio", "verified", "followers", "created",
     "region", "language", "bio_link"}

\* scraper.py:232-286, user and stats being dicts.
FormatDicts(user, stats) ==
    LET created_str == Created(Get(user, "createTime", PyInt(0)))
        region == Or(Get(user, "region", PyNone), PyNone)
        language == Or(Get(user, "language", PyNone), PyNone)
        region_display == resolve_region(region, language)
        language_name == lang_code_to_name(language)
    IN  IF Raised \in {created_str, region_display, language_name}
        THEN Raised
        ELSE [error |-> FALSE,
              username |-> Get(user, "uniqueId", PyStr("N/A")),
              nickname |-> Get(user, "nickname", PyStr("N/A")),
              user_id |-> PyStr(StrOf(Get(user, "id", PyStr("N/A")))),
              bio |-> Or(Get(user, "signature", PyStr("N/A")), PyStr("N/A")),
              verified |-> Get(user, "verified", PyBool(FALSE)),
              followers |-> format_number(Get(stats, "followerCount", PyInt(0))),
              created |-> created_str,
              region |-> region_display,
              language |-> language_name,
              bio_link |-> Or(BioLink(Get(user, "bioLink", PyNone)), PyStr("N/A")),
              raw_user |-> PyDict(user),
              raw_stats |-> PyDict(stats)]

\* scraper.py:232-286, _format_user: user.get and stats.get raise
\* AttributeError on a value that is no dict.
format_user(user, stats) ==
    IF IsDict(user) /\ IsDict(stats) THEN FormatDicts(user.dict, stats.dict)
    ELSE Raised

(* ------------------------------------------------------------------ *)
(* TikTokScraper.get_user_by_username and get_user_by_id               *)
(* (scraper.py:28-112)                                                 *)
(*                                                                     *)
(* A string is a sequence of characters; "tiktok.com" and "a" stand    *)
(* for the run of characters they spell.                               *)
(* ------------------------------------------------------------------ *)

\* The longest argument a caller passes.
MaxArg == 4

Chars == {"tiktok.com", "/", "@", "?", " ", "a"}

\* The arguments of get_user_by_username.
UsernameArgs == UNION {[1..n -> Chars] : n \in 0..MaxArg}

\* The arguments of get_user_by_id.
IdArgs == {<<"7">>, <<" ", "7", " ">>}

RECURSIVE LStrip(_, _)
\* s.lstrip(chars)
LStrip(s, chars) ==
    IF s # <<>> /\ Head(s) \in chars THEN LStrip(Tail(s), chars) ELSE s

RECURSIVE RStrip(_, _)
\* s.rstrip(chars)
RStrip(s, chars) ==
    IF s # <<>> /\ s[Len(s)] \in chars
    THEN RStrip(SubSeq(s, 1, Len(s) - 1), chars) ELSE s

\* s.strip(chars); strip() strips white space.
Strip(s, chars) == RStrip(LStrip(s, chars), chars)

\* "tiktok.com" in s
HasDomain(s) == \E i \in 1..Len(s) : s[i] = "tiktok.com"

\* Where re.search(r'tiktok\.com/@([^/?]+)', s) can match.
MatchStarts(s) ==
    {i \in 1..Len(s) - 3 :
        /\ s[i] = "tiktok.com" /\ s[i + 1] = "/" /\ s[i + 2] = "@"
        /\ s[i + 3] \notin {"/", "?"}}

\* group(1) of the leftmost match: the longest run without "/" and "?".
MatchGroup(s) ==
    LET i == CHOOSE k \in MatchStarts(s) : \A j \in MatchStarts(s) : k <= j
        ends == {e \in i + 3..Len(s) : \A k \in i + 3..e : s[k] \notin {"/", "?"}}
        last == CHOOSE e \in ends : \A f \in ends : f <= e
    IN  SubSeq(s, i + 3, last)

\* scraper.py:60
Cleaned(username) == Strip(LStrip(Strip(username, {" "}), {"@"}), {"/"})

\* scraper.py:63-68, mutated: a link without a username is fetched as it is.
RejectedNever(username) == FALSE

\* scraper.py:63-68: a link from which no username is read.
Rejected(username) == HasDomain(username) /\ MatchStarts(username) = {}

\* scraper.py:60-71: the username the page is fetched for.
Target(username) ==
    LET cleaned == Cleaned(username)
    IN  LStrip(IF HasDomain(cleaned) /\ MatchStarts(cleaned) # {}
               THEN MatchGroup(cleaned) ELSE cleaned, {"@"})

\* A "user" of a payload: a dict of profile fields, or something else.
UserValues ==
    {Absent, PyNone, PyList(<<>>),
     PyDict([uniqueId |-> PyStr("a"), createTime |-> PyInt(42)]),
     PyDict([uniqueId |-> PyStr("a"), createTime |-> PyList(<<1>>)]),
     PyDict([uniqueId |-> Absent, createTime |-> Absent])}

\* A "stats" of a payload.
StatsValues == {Absent, PyNone, PyDict([followerCount |-> PyInt(7)])}

\* A "userInfo" of a page: missing, null, empty, a list, or a dict with
\* "user" and "stats".
UserInfoValues ==
    {Absent, PyNone, PyDict([user |-> Absent, stats |-> Absent]), PyList(<<1>>)}
    \cup {PyDict([user |-> u, stats |-> st]) :
            u \in UserValues \ {Absent}, st \in StatsValues}
    \cup {PyDict([user |-> Absent, stats |-> PyDict([followerCount |-> PyInt(7)])])}

\* What the GET of scraper.py:31-32 finds: the request raises, the status is
\* not 200, the page has no script tag, its JSON does not parse, the JSON is
\* no dict, or it is a dict with "userInfo" and "statusCode".
ScrapeResponses ==
    {[kind |-> k, userInfo |-> Absent, statusCode |-> Absent] :
        k \in {"raise", "status", "nomatch", "badjson", "nodict"}}
    \cup [kind : {"data"}, userInfo : UserInfoValues,
          statusCode : {Absent, PyInt(0), PyInt(10221)}]

\* scraper.py:50, mutated: a page is taken whatever its status field says.
PageRefusedNever(user_info, status_code) == FALSE

\* scraper.py:50
PageRefused(user_info, status_code) ==
    ~PyTruthy(user_info) \/ status_code # PyInt(0)

\* scraper.py:28-56, _scrape_tiktok_page: user_info or None.
scrape_tiktok_page(resp) ==
    IF resp.kind # "data" THEN PyNone
    ELSE LET user_info == Get(resp, "userInfo", PyNone)
         IN  IF PageRefused(user_info, Get(resp, "statusCode", PyNone))
             THEN PyNone ELSE user_info

\* scraper.py:77-79 and 107-110: user_info.get raises AttributeError on a
\* user_info that is no dict; a missing "user" or "stats" is an empty dict.
FormatUserInfo(user_info) ==
    IF ~IsDict(user_info) THEN Raised
    ELSE format_user(Get(user_info.dict, "user", PyDict([uniqueId |-> Absent])),
                     Get(user_info.dict, "stats", PyDict([followerCount |-> Absent])))

\* What the POST of scraper.py:95-99 answers: the request raises, the body is
\* no JSON, or it is a dict with "code" and "data".
IdApiResponses ==
    {[kind |-> k, code |-> Absent, data |-> Absent] : k \in {"raise", "badjson"}}
    \cup [kind : {"data"}, code : {Absent, PyInt(0), PyInt(-1)},
          data : {Absent, PyNone, PyList(<<1>>),
                  PyDict([user |-> Absent, stats |-> Absent])}
                 \cup {PyDict([user |-> u, stats |-> st]) :
                        u \in UserValues \ {Absent}, st \in StatsValues}]

\* scraper.py:100
IdApiAccepts(resp) ==
    Get(resp, "code", PyNone) = PyInt(0) /\ PyTruthy(Get(resp, "data", PyNone))

\* scraper.py:91-105, the tikwm lookup: the record returned, or None when the
\* block falls through or its exception (of the request, of data["data"]["user"],
\* of _format_user) is swallowed.
id_api_method(resp) ==
    IF resp.kind # "data" THEN PyNone
    ELSE IF ~IdApiAccepts(resp) THEN PyNone
    ELSE IF ~IsDict(resp.data) THEN PyNone
    ELSE IF Keys(resp.data.dict) # {"user", "stats"} THEN PyNone
    ELSE LET r == format_user(resp.data.dict.user, resp.data.dict.stats)
         IN  IF r = Raised THEN PyNone ELSE r

\* Observer: a strategy was invoked for target, upstream answered resp, and the
\* strategy came back with a record (yielded) or without one.
Tried(name, target, resp, yielded) ==
    [name |-> name, target |-> target, resp |-> resp, yielded |-> yielded]

\* scraper.py:58-71: get_user_by_username is called; a link without a
\* username is answered at once.
UsernameCall ==
    /\ ppc = "idle"
    /\ \E username \in UsernameArgs :
        /\ parg' = username
        /\ IF Rejected(Cleaned(username))
           THEN ppc' = "done" /\ presult' = ProfileFailure
           ELSE ppc' = "page" /\ UNCHANGED presult
    /\ pfn' = "get_user_by_username"
    /\ pcalls' = <<>>
    /\ UNCHANGED <<rlVars, vidVars, botVars, fmtVars, obsVars, regVars, pureVars, fineVars, taskVars>>

\* scraper.py:81-87: get_user_by_id is called.
IdCall ==
    /\ ppc = "idle"
    /\ \E user_id \in IdArgs : parg' = user_id
    /\ pfn' = "get_user_by_id"
    /\ pcalls' = <<>>
    /\ ppc' = "api"
    /\ UNCHANGED presult
    /\ UNCHANGED <<rlVars, vidVars, botVars, fmtVars, obsVars, regVars, pureVars, fineVars, taskVars>>

\* scraper.py:89-105: the tikwm lookup of get_user_by_id.
IdApi ==
    /\ ppc = "api"
    /\ \E resp \in IdApiResponses :
        LET result == id_api_method(resp)
        IN  /\ pcalls' = Append(pcalls, Tried("api", Strip(parg, {" "}), resp,
                                              result # PyNone))
            /\ IF result # PyNone
               THEN ppc' = "done" /\ presult' = result
               ELSE ppc' = "page" /\ UNCHANGED presult
    /\ UNCHANGED <<pfn, parg>>
    /\ UNCHANGED <<rlVars, vidVars, botVars, fmtVars, obsVars, regVars, pureVars, fineVars, taskVars>>

\* The username or id in the address of the page.
PageTarget ==
    IF pfn = "get_user_by_username" THEN Target(parg) ELSE Strip(parg, {" "})

\* scraper.py:73-79 and 107-112: what the call comes back with when the page
\* answers resp: the record, the dict of failure, or an exception.
PageResult(resp) ==
    LET user_info == scrape_tiktok_page(resp)
    IN  IF PyTruthy(user_info) THEN FormatUserInfo(user_info) ELSE ProfileFailure

\* scraper.py:73-79 and 107-112: the page is fetched and its user_info
\* formatted; an exception of the formatting leaves the call.
ProfilePage ==
    /\ ppc = "page"
    /\ \E resp \in ScrapeResponses :
        LET result == PageResult(resp)
        IN  /\ pcalls' = Append(pcalls, Tried("page", PageTarget, resp,
                                              result \notin {ProfileFailure, Raised}))
            /\ presult' = result
    /\ ppc' = "done"
    /\ UNCHANGED <<pfn, parg>>
    /\ UNCHANGED <<rlVars, vidVars, botVars, fmtVars, obsVars, regVars, pureVars, fineVars, taskVars>>

\* The caller has the dict or the exception; the next call may start.
ProfileReturn ==
    /\ ppc = "done"
    /\ ppc' = "idle"
    /\ pfn' = "none"
    /\ parg' = <<>>
    /\ pcalls' = <<>>
    /\ presult' = ProfileFailure
    /\ UNCHANGED <<rlVars, vidVars, botVars, fmtVars, obsVars, regVars, pureVars, fineVars, taskVars>>

NextProfile ==
    \/ UsernameCall
    \/ IdCall
    \/ IdApi
    \/ ProfilePage
    \/ ProfileReturn

\* Calls of get_user_by_username and get_user_by_id, one after the other.
SpecProfile == Init /\ [][NextProfile]_vars

(* ------------------------------------------------------------------ *)
(* Claims about the profile resolvers                                  *)
(* ------------------------------------------------------------------ *)

\* A call of fn has come to its end.
CallEnded(fn) == ppc = "done" /\ pfn = fn

\* The names of the strategies invoked, in order.
Tries == [i \in 1..Len(pcalls) |-> pcalls[i].name]

\* presult is a profile record.
IsRecord(r) == r # Raised /\ ~r.error

\* C11: get_user_by_id invokes the tikwm lookup first and the page scrape only
\* when the lookup came back without a record (it failed or raised); the
\* record of the first strategy that has one is returned, and when neither
\* has one the dict of failure is returned.
C11_IdFallbackChain ==
    CallEnded("get_user_by_id") =>
        /\ Tries \in {<<"api">>, <<"api", "page">>}
        /\ (Len(pcalls) = 2) <=> ~pcalls[1].yielded
        /\ pcalls[Len(pcalls)].yielded => IsRecord(presult)
        /\ ~pcalls[Len(pcalls)].yielded => presult = ProfileFailure

\* The page of a try is one of those the claim lists: the request raised, the
\* status is not 200, the script tag is missing, the JSON does not parse, the
\* user info object is missing, or the status field is not zero.
UnusablePage(resp) ==
    \/ resp.kind \in {"raise", "status", "nomatch", "badjson"}
    \/ /\ resp.kind = "data"
       /\ \/ resp.userInfo \in {Absent, PyNone}
          \/ (IsInt(resp.statusCode) /\ resp.statusCode.int # 0)

\* C12: get_user_by_username returns the dict of failure, and raises nothing,
\* whenever the page request raises, answers with a status other than 200,
\* has no script tag, holds JSON that does not parse, has no user info object,
\* or has a status field other than zero.
C12_UnusablePageIsFailure ==
    (CallEnded("get_user_by_username") /\ pcalls # <<>> /\ UnusablePage(pcalls[1].resp))
        => presult = ProfileFailure

\* A call of get_user_by_username found a full user info object under a status
\* field that is not zero.
C12_Witness ==
    /\ CallEnded("get_user_by_username")
    /\ pcalls # <<>>
    /\ pcalls[1].resp.kind = "data"
    /\ pcalls[1].resp.statusCode = PyInt(10221)
    /\ IsDict(pcalls[1].resp.userInfo)
    /\ PyTruthy(pcalls[1].resp.userInfo)
    /\ presult = ProfileFailure

\* The values get_user_by_username returns when the fetch finds nothing.
NotFoundValues == {PageResult(resp) : resp \in {r \in ScrapeResponses : UnusablePage(r)}}

\* C27: resolver outcomes are tagged with a typed failure reason: the failure
\* returned by get_user_by_username for a malformed URL (invalid_input) is
\* distinguishable, in the value returned to the caller, from the failure
\* returned when the fetch finds nothing (not_found), and no outcome is a
\* record combined with a separate error flag.
C27_TypedFailureReason ==
    CallEnded("get_user_by_username") =>
        /\ (pcalls = <<>> /\ Rejected(Cleaned(parg))) => presult \notin NotFoundValues
        /\ (presult # Raised /\ "username" \in DOMAIN presult) => "error" \notin DOMAIN presult

\* C13: no fault of a strategy or of the formatting leaves a profile resolver:
\* whatever the payload, the call returns a record or the dict of failure.
C13_NoFaultEscapes == ppc = "done" => presult # Raised

\* The argument holds the domain and no username can be read from it.
LinkWithoutUsername(username) ==
    HasDomain(username) /\ MatchStarts(Cleaned(username)) = {}

\* C14: when the argument of get_user_by_username is a link with the domain
\* of the platform from which no username can be read, the dict of failure is
\* returned at once and no page is fetched.
C14_BadLinkNoFetch ==
    (pfn = "get_user_by_username" /\ LinkWithoutUsername(parg)) =>
        /\ ppc = "done"
        /\ pcalls = <<>>
        /\ presult = ProfileFailure

\* The call was given the link "tiktok.com/@/", whose username is empty.
C14_Witness ==
    /\ CallEnded("get_user_by_username")
    /\ parg = <<"tiktok.com", "/", "@", "/">>
    /\ pcalls = <<>>
    /\ presult = ProfileFailure

(* ------------------------------------------------------------------ *)
(* TikTokScraper._format_user on the payloads of upstream              *)
(* ------------------------------------------------------------------ *)

\* The "user" dicts of upstream: a field is missing, null, empty, zero or set.
UserPayloads ==
    [uniqueId : {Absent, PyNone, PyStr("a")},
     nickname : {Absent, PyStr("n")},
     id : {Absent, PyInt(7)},
     signature : {Absent, PyNone, PyStr(""), PyStr("bio")},
     verified : {Absent, PyBool(TRUE)},
     createTime : {Absent, PyInt(0), PyInt(42), PyStr("abc"), PyInt(MaxDate + 1),
                   PyInt(MaxTimeT + 1)},
     region : {Absent, PyNone, PyStr("us"), PyStr("xx")},
     language : {Absent, PyStr("EN")},
     bioLink : {Absent, PyStr("l"), PyDict([link |-> PyStr("l")]),
                PyDict([link |-> PyNone])}]

\* The "stats" dicts of upstream.
StatsPayloads == [followerCount : {Absent, PyInt(0), PyInt(1234567)}]

\* A payload that passed the status check is at hand.
InitPayload ==
    /\ InitRL
    /\ InitObserved
    /\ InitTasks
    /\ InitFine
    /\ InitPure
    /\ InitRegion
    /\ InitVideo
    /\ InitBot
    /\ InitProfile
    /\ HAS_YTDLP = TRUE
    /\ fuser \in UserPayloads
    /\ fstats \in StatsPayloads
    /\ frecord = NotFormatted

\* scraper.py:232-286: _format_user(user, stats) returns.
FormatUser ==
    /\ frecord = NotFormatted
    /\ frecord' = format_user(PyDict(fuser), PyDict(fstats))
    /\ UNCHANGED <<fuser, fstats>>
    /\ UNCHANGED <<rlVars, vidVars, botVars, profVars, obsVars, regVars, pureVars, fineVars, taskVars>>

NextFormat == FormatUser

\* One call of _format_user on a payload of upstream.
SpecFormat == InitPayload /\ [][NextFormat]_vars

\* C15: every record _format_user builds is fully populated: whatever fields
\* of the payload are missing, null, zero or empty, each canonical field of
\* the record holds a value that is not None.
C15_RecordFullyPopulated ==
    (frecord # NotFormatted /\ frecord # Raised) =>
        \A f \in CanonicalFields : frecord[f] \notin {PyNone, Absent}

\* The "createTime" of the payload at hand.
CreateTime == Get(fuser, "createTime", Absent)

\* The timestamp is an integer other than 0 that lies in the range of dates.
InDateRange(v) == IsInt(v) /\ v.int # 0 /\ v.int >= MinDate /\ v.int <= MaxDate

\* The timestamp is 0, absent, or an integer outside the range of dates.
NoDate(v) == v = Absent \/ (IsInt(v) /\ (v.int = 0 \/ v.int < MinDate \/ v.int > MaxDate))

\* C28: timestamp resolution never raises and maps a creation time that is 0,
\* absent, or outside the representable date range to the fallback string;
\* any other epoch-seconds value maps to its absolute UTC display form.
C28_TimestampNeverRaises ==
    frecord # NotFormatted =>
        /\ frecord # Raised
        /\ NoDate(CreateTime) => frecord.created = PyStr("N/A")
        /\ InDateRange(CreateTime) => frecord.created = Strftime(CreateTime.int)

(* ------------------------------------------------------------------ *)
(* Two calls of TikTokScraper._format_user on the same payload         *)
(* ------------------------------------------------------------------ *)

\* The calls of _format_user on other payloads that the model lets come
\* between the two calls.
MaxOthers == 1

\* The payloads of the two calls: those of UserPayloads with a nickname, an id,
\* a verified flag and a signature.
TwicePayloads ==
    {p \in UserPayloads :
        /\ p.nickname # Absent /\ p.id # Absent /\ p.verified # Absent
        /\ p.signature = PyStr("bio")}

\* The payload of a call that comes between the two.
OtherUser == [uniqueId |-> PyStr("b"), createTime |-> PyInt(7), region |-> PyStr("sa")]

\* A payload is at hand.
InitTwice ==
    /\ InitRL
    /\ InitObserved
    /\ InitTasks
    /\ InitFine
    /\ InitPure
    /\ InitRegion
    /\ InitVideo
    /\ InitBot
    /\ InitProfile
    /\ HAS_YTDLP = TRUE
    /\ fuser \in TwicePayloads
    /\ fstats = [followerCount |-> PyInt(1234567)]
    /\ frecord = NotFormatted

\* scraper.py:232-286: _format_user is called on another payload; what it
\* returns goes to its caller and nothing of the process is written.
FormatOther ==
    /\ fothers < MaxOthers
    /\ format_user(PyDict(OtherUser), PyDict(fstats)) # NotFormatted
    /\ fothers' = fothers + 1
    /\ UNCHANGED fagain
    /\ UNCHANGED <<rlVars, vidVars, botVars, profVars, fmtVars, obsVars, regVars, fineVars, taskVars>>

\* scraper.py:232-286: _format_user is called again on the payload at hand.
FormatAgain ==
    /\ frecord # NotFormatted
    /\ fagain = NotFormatted
    /\ fagain' = format_user(PyDict(fuser), PyDict(fstats))
    /\ UNCHANGED fothers
    /\ UNCHANGED <<rlVars, vidVars, botVars, profVars, fmtVars, obsVars, regVars, fineVars, taskVars>>

NextTwice ==
    \/ FormatUser
    \/ Tick
    \/ FormatOther
    \/ FormatAgain

\* Two calls of _format_user on one payload, with time passing and other calls
\* in between.
SpecTwice == InitTwice /\ [][NextTwice]_vars

RegionLetters == {"s", "a", "S", "A", "z", "Z"}

\* The values of region: None, the empty string, and every code of one or two
\* of these letters.
RegionArgs ==
    {PyNone} \cup {PyStr(Join(w)) : w \in {v \in Words : \A i \in DOMAIN v : v[i] \in RegionLetters}}

\* The values of language.
LanguageArgs == {PyNone, PyStr("en")}

\* The arguments of one call of _resolve_region are at hand.
InitRegionArgs ==
    /\ InitRL
    /\ InitObserved
    /\ InitTasks
    /\ InitFine
    /\ InitPure
    /\ InitFormat
    /\ InitVideo
    /\ InitBot
    /\ InitProfile
    /\ HAS_YTDLP = TRUE
    /\ region_arg \in RegionArgs
    /\ language_arg \in LanguageArgs
    /\ region_label = NotFormatted

\* scraper.py:288-321: _resolve_region(region, language) returns.
ResolveRegion ==
    /\ region_label = NotFormatted
    /\ region_label' = resolve_region(region_arg, language_arg)
    /\ UNCHANGED <<region_arg, language_arg>>
    /\ UNCHANGED <<rlVars, vidVars, botVars, profVars, fmtVars, obsVars, pureVars, fineVars, taskVars>>

NextRegion == ResolveRegion

\* One call of _resolve_region on a code of upstream.
SpecRegion == InitRegionArgs /\ [][NextRegion]_vars

\* The two codes are the same letters, whatever their case.
SameCode(code, key) ==
    LET w == Spell(code)
        v == Spell(key)
    IN  /\ Len(w) = Len(v)
        /\ \A i \in DOMAIN w : UpperLetter(w[i]) = UpperLetter(v[i])

\* The code in capital letters.
Capitals(code) == Join([i \in DOMAIN Spell(code) |-> UpperLetter(Spell(code)[i])])

\* Region resolution maps a code of the table, compared whatever its case, to
\* its label, any other code that is not empty to the code in capitals, and
\* an absent or empty code to the fallback string; "SA" gives the label of
\* Saudi Arabia and "zz" gives "ZZ".
RegionResolved(fallback) ==
    region_label # NotFormatted =>
        /\ region_arg \in {PyNone, PyStr("")} => region_label = PyStr(fallback)
        /\ region_arg \notin {PyNone, PyStr("")} =>
            /\ \A key \in DOMAIN REGION_MAP :
                   SameCode(region_arg.str, key) => region_label = PyStr(REGION_MAP[key])
            /\ (\A key \in DOMAIN REGION_MAP : ~SameCode(region_arg.str, key)) =>
                   region_label = PyStr(Capitals(region_arg.str))
        /\ region_arg = PyStr("SA") => region_label = PyStr("Saudi Arabia")
        /\ region_arg = PyStr("zz") => region_label = PyStr("ZZ")

MaxSaves == 21

\* The saves of the second user, and the saves of the first user that are of
\* the second username.
MaxFew == 2

\* The usernames saved.
HistoryNames == {"a", "b"}

\* How many entries of a list are of username.
CountOf(entries, username) ==
    Cardinality({i \in 1..Len(entries) : entries[i].username = username})

\* The user may save username once more.
MaySave(u, username) ==
    /\ Len(saved[u]) < (IF u = 1 THEN MaxSaves ELSE MaxFew)
    /\ (u = 1 /\ username = "b") => CountOf(saved[u], "b") < MaxFew

\* bot.py:247, 307, 506, 582, 624, 662: a handler saves the profile it shows.
SaveToHistory(u, username) ==
    /\ MaySave(u, username)
    /\ search_history' = save_to_history(search_history, u, username, now)
    /\ saved' = [saved EXCEPT ![u] =
                    <<[username |-> username, time |-> Stamp(now)]>> \o @]
    /\ UNCHANGED <<favorites, pending_action, conv, displayed, task>>
    /\ UNCHANGED <<upstream, shown_record, raw_export>>
    /\ UNCHANGED <<rlVars, vidVars, profVars, fmtVars, regVars, pureVars, fineVars, taskVars>>

NextHistory == \E u \in Users, username \in HistoryNames : SaveToHistory(u, username)

\* The saves of two users, in any order.
SpecHistory == Init /\ [][NextHistory]_vars

\* The history of a user; a user without a key has none.
HistoryOf(sh, u) == IF u \in DOMAIN sh THEN sh[u] ELSE <<>>

\* The first n entries of a list, or all of it.
Newest(entries, n) == SubSeq(entries, 1, IF Len(entries) < n THEN Len(entries) ELSE n)

\* The history of a user holds at most 20 entries, the most recent first: it
\* is the 20 most recently saved entries of the user, or all of them.
HistoryIsNewestTwenty ==
    \A u \in Users :
        /\ Len(HistoryOf(search_history, u)) <= 20
        /\ HistoryOf(search_history, u) = Newest(saved[u], 20)

\* A save of one user leaves the history of every other user as it was.
SaveLeavesOthers ==
    \A u \in Users :
        saved'[u] = saved[u] => HistoryOf(search_history', u) = HistoryOf(search_history, u)

\* C16: after any sequence of save_to_history calls each user's history holds
\* at most 20 entries, the most recent first, and is the (up to) 20 most
\* recently saved entries of that user; the histories of the other users are
\* not affected.
C16_HistoryNewestTwenty ==
    /\ []HistoryIsNewestTwenty
    /\ [][SaveLeavesOthers]_vars

\* The first user saved 21 entries, the oldest of them is gone, and the
\* second user has a history of its own.
C16_Witness ==
    /\ Len(saved[1]) = 21
    /\ saved[1][21].username = "b"
    /\ Len(HistoryOf(search_history, 1)) = 20
    /\ CountOf(HistoryOf(search_history, 1), "b") = 1
    /\ Len(HistoryOf(search_history, 2)) = 2

(* ------------------------------------------------------------------ *)
(* The favorites of the users (bot.py:488-497 and 823-846)             *)
(* ------------------------------------------------------------------ *)

\* The usernames added and removed: one of them in two letter cases.
FavNames == {"a", "A", "b"}

\* Each user was shown the profiles, with their add-favorite button.
InitFav ==
    /\ InitRL
    /\ InitObserved
    /\ InitTasks
    /\ InitFine
    /\ InitPure
    /\ InitRegion
    /\ InitFormat
    /\ InitVideo
    /\ InitProfile
    /\ HAS_YTDLP = TRUE
    /\ search_history = <<>>
    /\ favorites = <<>>
    /\ pending_action = [u \in Users |-> None]
    /\ conv = [u \in Users |-> [c \in {"search", "id", "video", "compare"} |->
                                    [waiting |-> FALSE, checked |-> "no"]]]
    /\ displayed = [u \in Users |-> FavNames]
    /\ task = NoTask

NextFav ==
    \/ \E u \in Users, n \in FavNames : CallbackAddFav(u, n)
    \/ \E u \in Users, op \in {"add", "remove"}, n \in FavNames : FavCommand(u, op, n)

\* The add-favorite buttons and the /fav commands of two users, in any order.
SpecFav == InitFav /\ [][NextFav]_vars

\* The favorites of a user; a user without a key has none.
FavoritesOf(fav, u) == IF u \in DOMAIN fav THEN fav[u] ELSE <<>>

\* Two usernames are equal when the case of their letters is ignored.
SameIgnoringCase(a, b) == a = b \/ {a, b} = {"a", "A"}

\* No two entries of a user's favorites are equal ignoring case.
NoTwoAlike ==
    \A u \in Users :
        \A i, j \in 1..Len(FavoritesOf(favorites, u)) :
            SameIgnoringCase(favorites[u][i], favorites[u][j]) => i = j

\* A step that makes the favorites of a user longer appends one name that was
\* in the list in no letter case: adding a name that is there, in whatever
\* case, leaves the list as it was.
AddsOnlyNew ==
    \A u \in Users :
        LET old == FavoritesOf(favorites, u)
            new == FavoritesOf(favorites', u)
        IN  (Len(new) > Len(old)) =>
                /\ new = Append(old, new[Len(new)])
                /\ \A i \in 1..Len(old) : ~SameIgnoringCase(old[i], new[Len(new)])

\* C17: after any sequence or interleaving of additions (add button or /fav
\* add) and removals no user's favorites hold two entries that are equal
\* ignoring case; adding a name that is there in another letter case leaves
\* the favorites unchanged.
C17_FavoritesCaseInsensitive ==
    /\ []NoTwoAlike
    /\ [][AddsOnlyNew]_vars

\* User 1 has "A" and "b" as favorites and has just pressed an add-favorite
\* button that added nothing; user 2 has "a".
C17_Witness ==
    /\ FavoritesOf(favorites, 1) = <<"A", "b">>
    /\ FavoritesOf(favorites, 2) = <<"a">>
    /\ task.pc = "done"
    /\ task.user = 1
    /\ task.handler = "callback:addfav"
    /\ task.faved = 0

(* ------------------------------------------------------------------ *)
(* The resolvers and the handlers, one at a time                       *)
(* ------------------------------------------------------------------ *)

\* A call of get_video_no_watermark, or a call of a profile resolver, or the
\* handlers: each runs while the other two are at rest.
NextRetry ==
    \/ (ppc = "idle" /\ task = NoTask /\ NextVideo)
    \/ (vpc = "idle" /\ task = NoTask /\ NextProfile)
    \/ (vpc = "idle" /\ ppc = "idle" /\ NextBot)

SpecRetry == Init /\ [][NextRetry]_vars

\* No strategy appears twice among the strategies a call invoked.
OnceEach(calls) ==
    \A i, j \in 1..Len(calls) : calls[i].name = calls[j].name => i = j

\* The lookups a handler is asked for: two usernames to compare, or one
\* username, id or link.
Lookups(handler) ==
    IF handler \in {"handle_compare_input", "pending:compare"} THEN 2 ELSE 1

\* C18, as stated: within one call of a resolver each strategy is invoked at
\* most once, and a handler that got a failure outcome makes no further
\* resolver call.
C18_NoFetchAfterFailure ==
    /\ OnceEach(vcalls)
    /\ OnceEach(pcalls)
    /\ task.pc # "none" => (task.fetches > 1 => ~task.first_error)

\* C18, amended: within one call of a resolver each strategy is invoked at
\* most once, and a handler makes one resolver call for each lookup it is
\* asked for, whatever the outcomes: none is made again.
C18_OneCallPerLookup ==
    /\ OnceEach(vcalls)
    /\ OnceEach(pcalls)
    /\ task.pc # "none" => task.fetches <= Lookups(task.handler)

\* A comparison whose first lookup failed has made its second lookup and
\* returned.
C18_Witness ==
    /\ task.pc = "done"
    /\ task.handler = "handle_compare_input"
    /\ task.first_error
    /\ task.fetches = 2

(* ------------------------------------------------------------------ *)
(* Termination of the resolvers                                        *)
(* ------------------------------------------------------------------ *)

\* C19: every call of a resolver returns an outcome in the end: each strategy,
\* the media-extraction library and the short-link step among them, is bounded
\* by a timeout, after which it counts as failed and the next one is tried.
C19_EveryCallReturns == (vpc = "resolve") ~> (vpc = "done")

(* ------------------------------------------------------------------ *)
(* The raw-data button (bot.py:531-555)                                *)
(* ------------------------------------------------------------------ *)

\* The platform answers the profile page with something else than before.
UpstreamChanges ==
    /\ \E resp \in ScrapeResponses : resp # upstream /\ upstream' = resp
    /\ UNCHANGED <<saved, shown_record, raw_export>>
    /\ UNCHANGED <<rlVars, vidVars, botVars, profVars, fmtVars, regVars, pureVars, fineVars, taskVars>>

\* bot.py:241-275, 464-485, 502-528: a handler looks the username up and sends
\* the record with its refresh, raw-data and add-favorite buttons.
ShowProfile ==
    /\ LET result == PageResult(upstream)
       IN  /\ IsRecord(result)
           /\ shown_record' = result
    /\ raw_export' = NotFormatted
    /\ UNCHANGED <<saved, upstream>>
    /\ UNCHANGED <<rlVars, vidVars, botVars, profVars, fmtVars, regVars, pureVars, fineVars, taskVars>>

\* bot.py:542-545
RawData(result) == [user |-> result.raw_user, stats |-> result.raw_stats]

\* bot.py:531-555: the raw-data button under the record shown looks the
\* username up again and sends the raw fields of what it got; a failure is
\* answered with "not found", an exception goes to the error handler.
RawExport ==
    /\ shown_record # NotFormatted
    /\ LET result == PageResult(upstream)
       IN  raw_export' = IF IsRecord(result) THEN RawData(result) ELSE result
    /\ UNCHANGED <<saved, upstream, shown_record>>
    /\ UNCHANGED <<rlVars, vidVars, botVars, profVars, fmtVars, regVars, pureVars, fineVars, taskVars>>

NextRaw == UpstreamChanges \/ ShowProfile \/ RawExport

\* A user looks a profile up and asks for its raw data while the platform
\* goes on changing.
SpecRaw == Init /\ [][NextRaw]_vars

\* C20: the raw export is the upstream payload of the record last shown, the
\* payload that record was built from, as upstream sent it.
C20_RawExportOfShownRecord ==
    raw_export # NotFormatted => raw_export = RawData(shown_record)

(* ------------------------------------------------------------------ *)
(* Claims about search history and pending actions of the bot          *)
(* ------------------------------------------------------------------ *)

\* The handlers of a search (bot.py:234, 566-576, 611-618), of an id lookup
\* (bot.py:294, 649-656) and of a button of the favorites or history list
\* (bot.py:500-502).
LookupHandlers ==
    {"handle_username_input", "pending:none", "pending:search",
     "handle_id_input", "pending:id", "callback:favsearch"}

\* In this step the profile resolution awaited by such a handler of user u
\* succeeds.
SuccessfulLookup(u) ==
    /\ task.pc = "fetch"
    /\ task.user = u
    /\ task.handler \in LookupHandlers
    /\ task'.pc = "done"
    /\ task'.shown

\* In this step the history of user u gains one entry at its front, stamped
\* with the current time and naming a profile sent to the user; the entries
\* it held follow, cut to HISTORY_MAX.
OneEntryAdded(u) ==
    LET old == HistoryOf(search_history, u)
        new == HistoryOf(search_history', u)
    IN  /\ new # <<>>
        /\ new = Newest(<<Head(new)>> \o old, HISTORY_MAX)
        /\ Head(new).time = Stamp(now)
        /\ Head(new).username \in displayed'[u]
        /\ Head(new).username \in BotNames

\* C34: a user's search history changes only when a profile resolution
\* triggered by a search, an id lookup or a favorites/history re-search
\* succeeds, and then by exactly one entry for the resolved username; failed
\* resolutions, rate-limit denials, refresh, compare, raw export and video
\* requests leave every history unchanged.
C34_HistoryChangesOnlyOnLookup ==
    [][\A u \in BotUsers :
          IF SuccessfulLookup(u)
          THEN OneEntryAdded(u)
          ELSE HistoryOf(search_history', u) = HistoryOf(search_history, u)]_vars

\* C34 witness: a button of the favorites list looked a profile up with
\* success and the user's history, empty before, holds that one profile.
C34_Witness ==
    /\ task.pc = "done"
    /\ task.handler = "callback:favsearch"
    /\ task.shown
    /\ task.saved = 1
    /\ Len(HistoryOf(search_history, task.user)) = 1
    /\ HistoryOf(search_history, task.user)[1].username \in displayed[task.user]

\* The handlers of a text message that is no command: those of the four
\* conversations (bot.py:933, 939, 945, 951) and handle_pending_action
\* (bot.py:966), which gets the message when no conversation takes it.
TextHandlers ==
    {"handle_username_input", "handle_id_input", "handle_video_input",
     "handle_compare_input", "pending:none", "pending:search", "pending:id",
     "pending:compare", "pending:video"}

\* handle_pending_action on a message that found a pending action set.
PendingHandlers ==
    {"pending:search", "pending:id", "pending:compare", "pending:video"}

\* In this step a text message of user u is taken by its handler.
TextMessage(u) ==
    /\ Idle
    /\ task'.pc # "none"
    /\ task'.user = u
    /\ task'.handler \in TextHandlers

\* Once handle_pending_action has taken a message with a pending action set,
\* the user has no pending action, whether the handler was denied, awaits the
\* scraper, or has returned with or without a profile, comparison or video.
PendingUnsetOnEveryPath ==
    (task.pc # "none" /\ task.handler \in PendingHandlers) =>
        pending_action[task.user] = None

\* C35: a pending action set by an inline action button is consumed by
\* exactly the next text message: once the user's next text message is
\* handled, the pending action is unset on every path (success, failed
\* resolution, rate-limit denial, compare input with fewer than two names),
\* so the following text message is treated as a plain username search.
C35_PendingConsumedByNextText ==
    /\ []PendingUnsetOnEveryPath
    /\ [][\A u \in BotUsers : TextMessage(u) => pending_action'[u] = None]_vars

====
